---- MODULE Spec2Model ----
(***************************************************************************)
(* ProperDuel: the combat core (Character, YellowNinja), the input layer   *)
(* (InputHandler, AIController), the two match scenes (FightScene,         *)
(* Level2Scene) and the fight/level2 branches of GameEngine.update.        *)
(*                                                                         *)
(* Units.  Time is in milliseconds (dt = clock.tick(FPS) / 1000.0 is a     *)
(* whole number of milliseconds).  Positions are in micro-pixels,          *)
(* velocities in milli-pixels per second, so that x += velocity * dt is    *)
(* exact integer arithmetic.  Stamina is in thousandths, so that           *)
(* stamina += 25.0 * dt is exact.  Health is the integer of the source.    *)
(*                                                                         *)
(* Animator.  Every clip's name is modelled (current_animation_name and    *)
(* the membership test of play_animation read it); the frame counters are  *)
(* kept for the clips whose frames the core reads: "attack",               *)
(* "special_attack" (hit frame) and "dead" (is_finished).  The frame       *)
(* counters of the other clips are read by render() only.                  *)
(***************************************************************************)
EXTENDS Integers, Sequences, FiniteSets, TLC

VARIABLES
    mode,      \* which harness drives the objects: "fight", "level2", "unit"
    p1,        \* scene.player1 (Samurai1)
    p2,        \* scene.player2 (Samurai2 in FightScene, YellowNinja in Level2Scene)
    sc,        \* the scene's round / match / dialogue fields
    eng,       \* GameEngine fields: paused
    ih,        \* InputHandler: the keys held, player1_input, the parry timing
    ai,        \* AIController fields
    obs,       \* observations of the last step (what the step resolved)
    bud        \* what is left of the bounds of this run

vars == <<mode, p1, p2, sc, eng, ih, ai, obs, bud>>

----------------------------------------------------------------------------
(* Units and arithmetic helpers *)

U == 1000 * 1000      \* micro-pixels per pixel
MV == 1000 * 1        \* milli-pixels/s per pixel/s
SU == 1000 * 1        \* stamina thousandths per stamina point

Max(a, b) == IF a >= b THEN a ELSE b
Min(a, b) == IF a <= b THEN a ELSE b
Abs(a) == IF a >= 0 THEN a ELSE -a

\* int(float): C truncation toward zero, as pygame.Rect applies to float coordinates
Trunc(n, d) == IF n >= 0 THEN n \div d ELSE -((-n) \div d)

----------------------------------------------------------------------------
(* sprite_system.Animation / SpriteAnimator *)

\* the clips each character type loads (load_sprites), by animation name
SamuraiClips == {"idle", "attack", "special_attack", "walk", "dead", "hit", "stun", "jump", "block"}
NinjaClips == {"idle", "walk", "run", "attack", "block", "jump", "hit", "dead"}

\* clips whose frame counter the core reads
Tracked == {"attack", "special_attack", "dead"}

\* len(frames) and frame_duration (ms) of the tracked clips, per character type
ClipFrames(kind, name) ==
    IF kind = "YellowNinja"
    THEN (IF name = "attack" THEN 20 ELSE 14)
    ELSE 6

ClipDuration(kind, name) ==
    IF kind = "YellowNinja"
    THEN (IF name = "attack" THEN 24 ELSE 120)
    ELSE (IF name = "attack" THEN 80 ELSE IF name = "special_attack" THEN 120 ELSE 150)

\* Animation.__init__ / Animation.reset
FreshClip == [current_frame |-> 0, time_since_last_frame |-> 0, is_playing |-> TRUE]

\* faulty variant: the clip wraps around and keeps playing, as a looping clip does
ClipUpdateLooping(cl, dt, nframes, dur) ==
    IF ~cl.is_playing THEN cl
    ELSE LET t == cl.time_since_last_frame + dt IN
         IF t >= dur
         THEN [current_frame |-> (cl.current_frame + 1) % nframes, time_since_last_frame |-> 0,
               is_playing |-> TRUE]
         ELSE [cl EXCEPT !.time_since_last_frame = t]

\* Animation.update for a non-looping clip (attack, special_attack, dead all set loop = False)
ClipUpdate(cl, dt, nframes, dur) ==
    IF ~cl.is_playing THEN cl
    ELSE LET t == cl.time_since_last_frame + dt IN
         IF t >= dur
         THEN IF cl.current_frame + 1 >= nframes
              THEN [current_frame |-> nframes - 1, time_since_last_frame |-> 0, is_playing |-> FALSE]
              ELSE [current_frame |-> cl.current_frame + 1, time_since_last_frame |-> 0, is_playing |-> TRUE]
         ELSE [cl EXCEPT !.time_since_last_frame = t]

\* SpriteAnimator.update: only the current clip advances
AnimatorUpdate(c, dt) ==
    IF c.anim \in Tracked /\ c.anim \in c.animations
    THEN [c EXCEPT !.clips[c.anim] =
             ClipUpdate(c.clips[c.anim], dt, ClipFrames(c.kind, c.anim), ClipDuration(c.kind, c.anim))]
    ELSE c

\* SpriteAnimator.play_animation(name, reset)
PlayAnimation(c, name, reset) ==
    IF name \in c.animations /\ (c.anim # name \/ reset)
    THEN IF name \in Tracked
         THEN [c EXCEPT !.anim = name,
                        !.clips[name] = IF reset THEN FreshClip
                                        ELSE [c.clips[name] EXCEPT !.is_playing = TRUE]]
         ELSE [c EXCEPT !.anim = name]
    ELSE c

----------------------------------------------------------------------------
(* character.Character *)

MaxHealth == 100
MaxStamina == 100
StaminaPerBlock == 50
JumpStaminaCost == 20
StaminaRegenRate == 25
JumpPower == 650
Gravity == 800
GroundY == 335
StunTime == 2500
HitAnimationTime == 400
AttackDuration == 480
AttackCooldownTime == 500
SpecialAttackDuration == 720
SpecialAttackCooldownTime == 10000
AttackHitFrame == 4
SpecialAttackHitFrame == 4
ArenaLeft == -100
ArenaRight == 900
BaseSpeed == 200
Samurai1Speed == 250
Samurai2Speed == 180
SamuraiWidth == 400
SamuraiHeight == 400
AttackWidth == 25
AttackHeight == 15
SpecialWidth == 40
SpecialHeight == 25

\* PlayerInput with every key up
NoInput == [left |-> FALSE, right |-> FALSE, up |-> FALSE, down |-> FALSE,
            attack |-> FALSE, block |-> FALSE, special |-> FALSE]

\* Character.__init__ (x, y in pixels), with the sprite set of the subclass
Character(kind, x, y, facing_right, speed, width, height, animations) ==
    [kind |-> kind,
     x |-> x * U, y |-> y * U, velocity_x |-> 0, velocity_y |-> 0,
     facing_right |-> facing_right,
     health |-> MaxHealth, max_health |-> MaxHealth, speed |-> speed * MV,
     is_attacking |-> FALSE, is_blocking |-> FALSE, is_dead |-> FALSE,
     is_hit |-> FALSE, hit_duration |-> 0,
     attack_cooldown |-> 0, attack_duration |-> AttackDuration,
     current_attack_id |-> 0, can_hit |-> FALSE,
     is_special_attacking |-> FALSE, special_attack_cooldown |-> 0,
     special_attack_duration |-> SpecialAttackDuration,
     special_attack_cooldown_time |-> SpecialAttackCooldownTime,
     current_special_attack_id |-> 0, can_special_hit |-> FALSE,
     stamina |-> MaxStamina * SU, max_stamina |-> MaxStamina * SU,
     god_mode |-> FALSE,
     is_stunned |-> FALSE, stun_duration |-> 0,
     ground_y |-> GroundY * U, on_ground |-> TRUE,
     width |-> width, height |-> height,
     animations |-> animations,
     anim |-> "idle",
     clips |-> [n \in Tracked |-> FreshClip],
     last_attack_id |-> -1, last_special_attack_id |-> -1]

Samurai1(x, y) == Character("Samurai1", x, y, TRUE, Samurai1Speed, SamuraiWidth, SamuraiHeight, SamuraiClips)
Samurai2(x, y) == Character("Samurai2", x, y, FALSE, Samurai2Speed, SamuraiWidth, SamuraiHeight, SamuraiClips)

\* Character.start_attack
StartAttack(c) ==
    [c EXCEPT !.is_attacking = TRUE, !.attack_duration = AttackDuration,
              !.is_blocking = FALSE, !.current_attack_id = c.current_attack_id + 1,
              !.can_hit = FALSE]

\* Character.start_special_attack
StartSpecialAttack(c) ==
    IF c.special_attack_cooldown <= 0
    THEN [c EXCEPT !.is_special_attacking = TRUE,
                   !.special_attack_duration = SpecialAttackDuration,
                   !.is_blocking = FALSE,
                   !.current_special_attack_id = c.current_special_attack_id + 1,
                   !.can_special_hit = FALSE]
    ELSE c

\* faulty variant: depleted stamina triggers no stun
StunNever(c) == c

\* stamina depleted: trigger stun (the tail of the block-start and the jump branches)
StunIfDepleted(c) ==
    IF c.stamina <= 0
    THEN [c EXCEPT !.is_stunned = TRUE, !.stun_duration = StunTime, !.is_blocking = FALSE]
    ELSE c

\* faulty variant: the block cost is charged on every tick of a block
InputBlockEveryTick(c, in) ==
    LET can_block == c.stamina > 0 /\ ~c.is_attacking
        c1 == [c EXCEPT !.is_blocking = in.block /\ can_block]
    IN IF c1.is_blocking
       THEN StunIfDepleted([c1 EXCEPT !.stamina = Max(0, c1.stamina - StaminaPerBlock * SU)])
       ELSE c1

\* _handle_input: block first
InputBlock(c, in) ==
    LET was_blocking == c.is_blocking
        can_block == c.stamina > 0 /\ ~c.is_attacking
        c1 == [c EXCEPT !.is_blocking = in.block /\ can_block]
    IN IF c1.is_blocking /\ ~was_blocking
       THEN StunIfDepleted([c1 EXCEPT !.stamina = Max(0, c1.stamina - StaminaPerBlock * SU)])
       ELSE c1

\* _handle_input: movement (disabled while blocking or stunned)
InputMove(c, in) ==
    IF ~c.is_blocking /\ ~c.is_stunned
    THEN IF in.left THEN [c EXCEPT !.velocity_x = -c.speed, !.facing_right = FALSE]
         ELSE IF in.right THEN [c EXCEPT !.velocity_x = c.speed, !.facing_right = TRUE]
         ELSE [c EXCEPT !.velocity_x = 0]
    ELSE [c EXCEPT !.velocity_x = 0]

\* faulty variant: a jump is taken in the air as on the ground
InputJumpAirborne(c, in) ==
    IF in.up /\ ~c.is_blocking /\ ~c.is_stunned
       /\ c.stamina >= JumpStaminaCost * SU
    THEN StunIfDepleted([c EXCEPT !.velocity_y = -(JumpPower * MV), !.on_ground = FALSE,
                                  !.stamina = Max(0, c.stamina - JumpStaminaCost * SU)])
    ELSE c

\* _handle_input: jump
InputJump(c, in) ==
    IF in.up /\ c.on_ground /\ ~c.is_blocking /\ ~c.is_stunned
       /\ c.stamina >= JumpStaminaCost * SU
    THEN StunIfDepleted([c EXCEPT !.velocity_y = -(JumpPower * MV), !.on_ground = FALSE,
                                  !.stamina = Max(0, c.stamina - JumpStaminaCost * SU)])
    ELSE c

\* _handle_input: attack, then special attack
InputAttack(c, in) ==
    IF in.attack /\ ~c.is_attacking /\ ~c.is_special_attacking
       /\ c.attack_cooldown <= 0 /\ ~c.is_stunned
    THEN StartAttack(c) ELSE c

InputSpecial(c, in) ==
    IF in.special /\ ~c.is_attacking /\ ~c.is_special_attacking /\ ~c.is_stunned
    THEN StartSpecialAttack(c) ELSE c

\* Character._handle_input
HandleInput(c, in) ==
    IF c.is_stunned
    THEN [c EXCEPT !.is_blocking = FALSE, !.velocity_x = 0]
    ELSE InputSpecial(InputAttack(InputJump(InputMove(InputBlock(c, in), in), in), in), in)

\* Character._update_physics
UpdatePhysics(c, dt) ==
    LET c1 == IF ~c.on_ground THEN [c EXCEPT !.velocity_y = c.velocity_y + Gravity * dt] ELSE c
        c2 == [c1 EXCEPT !.x = c1.x + c1.velocity_x * dt, !.y = c1.y + c1.velocity_y * dt]
        c3 == IF c2.y >= c2.ground_y
              THEN [c2 EXCEPT !.y = c2.ground_y, !.velocity_y = 0, !.on_ground = TRUE]
              ELSE c2
    IN IF c3.x < ArenaLeft * U THEN [c3 EXCEPT !.x = ArenaLeft * U]
       ELSE IF c3.x > (ArenaRight - c3.width) * U THEN [c3 EXCEPT !.x = (ArenaRight - c3.width) * U]
       ELSE c3

\* _update_combat: stun duration
CombatStun(c, dt) ==
    IF c.is_stunned
    THEN IF c.stun_duration - dt <= 0
         THEN [c EXCEPT !.stun_duration = c.stun_duration - dt, !.is_stunned = FALSE, !.is_blocking = FALSE]
         ELSE [c EXCEPT !.stun_duration = c.stun_duration - dt]
    ELSE c

\* _update_combat: attack duration
CombatAttack(c, dt) ==
    IF c.is_attacking
    THEN IF c.attack_duration - dt <= 0
         THEN [c EXCEPT !.attack_duration = c.attack_duration - dt, !.is_attacking = FALSE,
                        !.attack_cooldown = AttackCooldownTime]
         ELSE [c EXCEPT !.attack_duration = c.attack_duration - dt]
    ELSE c

\* _update_combat: hit duration
CombatHit(c, dt) ==
    IF c.is_hit
    THEN IF c.hit_duration - dt <= 0
         THEN [c EXCEPT !.hit_duration = c.hit_duration - dt, !.is_hit = FALSE]
         ELSE [c EXCEPT !.hit_duration = c.hit_duration - dt]
    ELSE c

\* faulty variant: the end of the special attack starts no cooldown
CombatSpecialNoCooldown(c, dt) ==
    IF c.is_special_attacking
    THEN LET d == c.special_attack_duration - dt IN
         IF d <= 0
         THEN [c EXCEPT !.special_attack_duration = d, !.is_special_attacking = FALSE]
         ELSE [c EXCEPT !.special_attack_duration = d]
    ELSE c

\* _update_combat: special attack duration
CombatSpecial(c, dt) ==
    IF c.is_special_attacking
    THEN IF c.special_attack_duration - dt <= 0
         THEN [c EXCEPT !.special_attack_duration = c.special_attack_duration - dt,
                        !.is_special_attacking = FALSE,
                        !.special_attack_cooldown = c.special_attack_cooldown_time]
         ELSE [c EXCEPT !.special_attack_duration = c.special_attack_duration - dt]
    ELSE c

\* _update_combat: cooldowns tick down
CombatCooldowns(c, dt) ==
    [c EXCEPT !.attack_cooldown = IF @ > 0 THEN Max(0, @ - dt) ELSE @,
              !.special_attack_cooldown = IF @ > 0 THEN Max(0, @ - dt) ELSE @]

\* faulty variant: regeneration goes on while the combatant blocks
CombatStaminaWhileBlocking(c, dt) ==
    IF ~c.is_stunned /\ c.stamina < c.max_stamina
    THEN [c EXCEPT !.stamina = Min(c.max_stamina, c.stamina + StaminaRegenRate * dt)]
    ELSE c

\* faulty variant: regeneration without the cap at max_stamina
CombatStaminaUnbounded(c, dt) ==
    IF ~c.is_blocking /\ ~c.is_stunned /\ c.stamina < c.max_stamina
    THEN [c EXCEPT !.stamina = c.stamina + StaminaRegenRate * dt]
    ELSE c

\* _update_combat: stamina regeneration
CombatStamina(c, dt) ==
    IF ~c.is_blocking /\ ~c.is_stunned /\ c.stamina < c.max_stamina
    THEN [c EXCEPT !.stamina = Min(c.max_stamina, c.stamina + StaminaRegenRate * dt)]
    ELSE c

\* Character._update_combat
UpdateCombat(c, dt) ==
    CombatStamina(CombatCooldowns(CombatSpecial(CombatHit(CombatAttack(CombatStun(c, dt), dt), dt), dt), dt), dt)

\* faulty variant: the latch is enabled as soon as the attack clip plays
HitFrameLatchEarly(c) ==
    LET c1 == IF c.is_attacking /\ c.anim = "attack" /\ ~c.can_hit
              THEN [c EXCEPT !.can_hit = TRUE] ELSE c
    IN IF c1.is_special_attacking /\ c1.anim = "special_attack" /\ ~c1.can_special_hit
       THEN [c1 EXCEPT !.can_special_hit = TRUE] ELSE c1

\* _update_animations: the hit frame enables the hit latch
HitFrameLatch(c) ==
    LET c1 == IF c.is_attacking /\ c.anim = "attack"
                 /\ c.clips["attack"].current_frame >= AttackHitFrame /\ ~c.can_hit
              THEN [c EXCEPT !.can_hit = TRUE] ELSE c
    IN IF c1.is_special_attacking /\ c1.anim = "special_attack"
          /\ c1.clips["special_attack"].current_frame >= SpecialAttackHitFrame
          /\ ~c1.can_special_hit
       THEN [c1 EXCEPT !.can_special_hit = TRUE] ELSE c1

\* _update_animations: choose the animation by state
ChooseAnimation(c) ==
    IF c.is_special_attacking
    THEN IF c.current_special_attack_id # c.last_special_attack_id
         THEN [PlayAnimation(c, "special_attack", TRUE) EXCEPT
                  !.last_special_attack_id = c.current_special_attack_id,
                  !.can_special_hit = FALSE]
         ELSE c
    ELSE IF c.is_attacking
    THEN IF c.current_attack_id # c.last_attack_id
         THEN [PlayAnimation(c, "attack", TRUE) EXCEPT
                  !.last_attack_id = c.current_attack_id, !.can_hit = FALSE]
         ELSE c
    ELSE IF c.is_hit THEN PlayAnimation(c, "hit", FALSE)
    ELSE IF c.is_stunned THEN PlayAnimation(c, "stun", FALSE)
    ELSE IF c.is_blocking THEN PlayAnimation(c, "block", FALSE)
    ELSE IF Abs(c.velocity_x) > 10 * MV THEN PlayAnimation(c, "walk", FALSE)
    ELSE IF ~c.on_ground THEN PlayAnimation(c, "jump", FALSE)
    ELSE PlayAnimation(c, "idle", FALSE)

\* Character._update_animations
UpdateAnimations(c, dt) ==
    LET c1 == AnimatorUpdate(c, dt) IN
    IF c1.is_dead
    THEN (IF c1.anim # "dead" THEN PlayAnimation(c1, "dead", TRUE) ELSE c1)
    ELSE ChooseAnimation(HitFrameLatch(c1))

\* faulty variant: a dead character is updated as a living one
CharUpdateDeadActs(c, dt, in) ==
    UpdateAnimations(UpdateCombat(UpdatePhysics(HandleInput(c, in), dt), dt), dt)

\* Character.update
CharUpdate(c, dt, in) ==
    IF c.is_dead THEN AnimatorUpdate(c, dt)
    ELSE UpdateAnimations(UpdateCombat(UpdatePhysics(HandleInput(c, in), dt), dt), dt)

\* Character.attack (the trigger the AI of YellowNinja uses)
Attack(c) ==
    IF c.is_dead \/ c.is_attacking \/ c.attack_cooldown > 0 THEN c
    ELSE PlayAnimation([c EXCEPT !.is_attacking = TRUE, !.attack_duration = AttackDuration,
                                 !.current_attack_id = c.current_attack_id + 1,
                                 !.can_hit = FALSE],
                       "attack", TRUE)

\* Character.special_attack
SpecialAttack(c) ==
    IF c.is_dead \/ c.is_special_attacking \/ c.special_attack_cooldown > 0 THEN c
    ELSE LET c1 == [c EXCEPT !.is_special_attacking = TRUE,
                             !.special_attack_duration = SpecialAttackDuration,
                             !.current_special_attack_id = c.current_special_attack_id + 1,
                             !.can_special_hit = FALSE]
         IN IF "special_attack" \in c.animations
            THEN PlayAnimation(c1, "special_attack", TRUE)
            ELSE PlayAnimation(c1, "attack", TRUE)

\* the value of a call: `none` when it returns nothing (Python's None),
\* else the truth value it returns
Returned(value) == [none |-> FALSE, value |-> value]
None == [none |-> TRUE, value |-> FALSE]

\* the value Character.special_attack returns: both of its exits, the early
\* `return` of the gate and the end of the body, return nothing
SpecialAttackReturn(c) == None

\* the value Character.start_special_attack returns
StartSpecialAttackReturn(c) == Returned(c.special_attack_cooldown <= 0)

\* Character.start_stun (duration None: stun_time)
StartStun(c) ==
    IF c.is_dead THEN c
    ELSE LET c1 == [c EXCEPT !.is_stunned = TRUE, !.is_blocking = FALSE, !.stun_duration = StunTime]
         IN IF "stun" \in c.animations THEN PlayAnimation(c1, "stun", TRUE)
            ELSE IF "hit" \in c.animations THEN PlayAnimation(c1, "hit", TRUE)
            ELSE c1

\* faulty variant: a block is effective whatever the facing
EffectiveBlockAnyFacing(c, attacker_x) == c.is_blocking /\ ~c.is_dead

\* take_damage: is the block effective (blocking, alive, facing the attacker)
EffectiveBlock(c, attacker_x) ==
    c.is_blocking /\ ~c.is_dead
    /\ ((c.facing_right /\ attacker_x > c.x) \/ (~c.facing_right /\ attacker_x < c.x))

\* faulty variant: a dead character is struck as a living one
TakeDamageDead(c, damage, attacker_x) ==
    IF EffectiveBlock(c, attacker_x) THEN [c |-> c, ret |-> FALSE]
    ELSE LET h == Max(0, c.health - damage) IN
         IF h <= 0
         THEN [c |-> PlayAnimation([c EXCEPT !.health = h, !.is_dead = TRUE], "dead", TRUE),
               ret |-> TRUE]
         ELSE [c |-> PlayAnimation([c EXCEPT !.health = h, !.is_hit = TRUE,
                                             !.hit_duration = HitAnimationTime], "hit", TRUE),
               ret |-> TRUE]

\* Character.take_damage: the character after the call and the value returned
TakeDamage(c, damage, attacker_x) ==
    IF EffectiveBlock(c, attacker_x) THEN [c |-> c, ret |-> FALSE]
    ELSE IF ~c.is_dead
    THEN LET h == Max(0, c.health - damage) IN
         IF h <= 0
         THEN [c |-> PlayAnimation([c EXCEPT !.health = h, !.is_dead = TRUE], "dead", TRUE),
               ret |-> TRUE]
         ELSE [c |-> PlayAnimation([c EXCEPT !.health = h, !.is_hit = TRUE,
                                             !.hit_duration = HitAnimationTime], "hit", TRUE),
               ret |-> TRUE]
    ELSE [c |-> c, ret |-> FALSE]

\* Character.is_death_animation_finished (the dead clip does not loop)
IsDeathAnimationFinished(c) ==
    c.is_dead /\ c.anim = "dead" /\ ~c.clips["dead"].is_playing

\* pygame.Rect of float coordinates: the coordinates are truncated to int
Rect(x, y, w, h) == [x |-> Trunc(x, U), y |-> Trunc(y, U), w |-> w, h |-> h]
NoRect == [x |-> 0, y |-> 0, w |-> 0, h |-> 0]

\* pygame.Rect.colliderect (a rect of no width or height collides with nothing)
CollideRect(a, b) ==
    /\ a.w > 0 /\ a.h > 0 /\ b.w > 0 /\ b.h > 0
    /\ a.x < b.x + b.w /\ a.y < b.y + b.h
    /\ b.x < a.x + a.w /\ b.y < a.y + a.h

\* Character.get_rect
GetRect(c) == Rect(c.x, c.y, c.width, c.height)

\* the hitbox of both attack kinds: adjacent to the facing edge, vertically centred
HitBox(c, w, h) ==
    Rect(IF c.facing_right THEN c.x + c.width * U ELSE c.x - w * U,
         c.y + (c.height \div 2) * U - (h \div 2) * U, w, h)

\* Character.get_attack_rect (NoRect stands for None)
GetAttackRect(c) ==
    IF ~c.is_attacking \/ ~c.can_hit THEN NoRect ELSE HitBox(c, AttackWidth, AttackHeight)

\* Character.get_special_attack_rect
GetSpecialAttackRect(c) ==
    IF ~c.is_special_attacking \/ ~c.can_special_hit THEN NoRect
    ELSE HitBox(c, SpecialWidth, SpecialHeight)

----------------------------------------------------------------------------
(* input_handler.InputHandler *)

ParryWindowDuration == 300

\* InputHandler.__init__: no key held, player1_input with the parry attributes
InputHandlerInit ==
    [keys |-> NoInput,
     player1_input |-> NoInput,
     is_parrying |-> FALSE, parry_window_time |-> 0,
     shift_press_time |-> 0, shift_was_pressed |-> FALSE]

\* faulty variant: every release of the block key opens a parry window
InputHandlerUpdateAnyRelease(h, dt) ==
    LET shift == h.keys.block
        tapped == ~shift /\ h.shift_was_pressed
        press == IF shift THEN (IF ~h.shift_was_pressed THEN 0 ELSE h.shift_press_time + dt) ELSE 0
        par0 == IF tapped THEN TRUE ELSE h.is_parrying
        win0 == IF tapped THEN ParryWindowDuration ELSE h.parry_window_time
        win1 == IF par0 THEN win0 - dt ELSE win0
        par2 == par0 /\ ~(win1 <= 0)
        win2 == IF par0 /\ win1 <= 0 THEN 0 ELSE win1
    IN [keys |-> h.keys,
        player1_input |-> [h.keys EXCEPT !.block = shift /\ ~par2],
        is_parrying |-> par2, parry_window_time |-> win2,
        shift_press_time |-> press, shift_was_pressed |-> shift]

\* InputHandler.update: keys is pygame.key.get_pressed() (block stands for K_LSHIFT)
InputHandlerUpdate(h, dt) ==
    LET shift == h.keys.block
        tapped == ~shift /\ h.shift_was_pressed /\ h.shift_press_time <= ParryWindowDuration
        press == IF shift THEN (IF ~h.shift_was_pressed THEN 0 ELSE h.shift_press_time + dt) ELSE 0
        par0 == IF tapped THEN TRUE ELSE h.is_parrying
        win0 == IF tapped THEN ParryWindowDuration ELSE h.parry_window_time
        win1 == IF par0 THEN win0 - dt ELSE win0
        par2 == par0 /\ ~(win1 <= 0)
        win2 == IF par0 /\ win1 <= 0 THEN 0 ELSE win1
    IN [keys |-> h.keys,
        player1_input |-> [h.keys EXCEPT !.block = shift /\ ~par2],
        is_parrying |-> par2, parry_window_time |-> win2,
        shift_press_time |-> press, shift_was_pressed |-> shift]

----------------------------------------------------------------------------
(* input_handler.AIController *)

AIDecisionInterval == 200
AIAttackCooldown == 1000
AIBlockDuration == 300
AISpecialCooldown == 10000

\* One outcome of every random.random() < p test of a frame, by call site:
\*   surprise (0.3), finishing (0.5): _make_decision, special attack opportunity
\*   block (0.8), chance (block_chance), counter (0.5): close range, player attacking
\*   aggro (aggression), retreat (0.3): close range
\*   approach (aggression * 0.8), jump (0.2): medium range
\*   flip: the 10% movement randomness of _execute_action ("none", "left", "right")
\*   ninja: the aggression test of YellowNinja._make_ai_decision
NoLuck == [surprise |-> FALSE, finishing |-> FALSE, block |-> FALSE, chance |-> FALSE,
           counter |-> FALSE, aggro |-> FALSE, retreat |-> FALSE, approach |-> FALSE,
           jump |-> FALSE, flip |-> "none", ninja |-> FALSE]

\* AIController.__init__
AIControllerInit ==
    [input |-> NoInput, last_decision_time |-> 0, action_timer |-> 0,
     attack_cooldown |-> 0, block_duration |-> 0, special_attack_cooldown |-> 0,
     current_action |-> "idle"]

\* AIController._make_decision
MakeDecision(a, aic, plc, distance, r) ==
    IF aic.is_stunned THEN [a EXCEPT !.current_action = "stunned"]
    ELSE
    LET player_attacking == plc.is_attacking
        can_block == aic.stamina > StaminaPerBlock * SU
        block_chance == r.chance  \* random() < 0.8 or < 0.4: either outcome both ways
        act(name) == [a EXCEPT !.current_action = name, !.action_timer = 0]
    IN
    IF a.special_attack_cooldown <= 0 /\ ~aic.is_stunned
       /\ (   (distance < 100 * U /\ plc.is_attacking)
           \/ (distance < 120 * U /\ ~plc.is_blocking /\ r.surprise)
           \/ (plc.health < 30 /\ distance < 150 * U /\ r.finishing))
    THEN [act("special_attack") EXCEPT !.special_attack_cooldown = AISpecialCooldown]
    ELSE IF distance < 60 * U
    THEN IF player_attacking /\ can_block /\ r.block
         THEN IF block_chance
              THEN [act("block") EXCEPT !.block_duration = AIBlockDuration]
              ELSE IF a.attack_cooldown <= 0 /\ r.counter
                   THEN [act("attack") EXCEPT !.attack_cooldown = AIAttackCooldown]
                   ELSE act("retreat")
         ELSE IF a.attack_cooldown <= 0 /\ r.aggro
              THEN [act("attack") EXCEPT !.attack_cooldown = AIAttackCooldown]
              ELSE IF r.retreat THEN act("retreat") ELSE a
    ELSE IF distance < 150 * U
    THEN IF r.approach THEN act("approach")
         ELSE IF r.jump /\ aic.stamina >= JumpStaminaCost * SU THEN act("jump_attack")
         ELSE a
    ELSE act("approach")

\* AIController._execute_action, before the movement randomness
ExecuteAction(a, aic, plc) ==
    LET toward == IF aic.x > plc.x THEN [a.input EXCEPT !.left = TRUE]
                  ELSE [a.input EXCEPT !.right = TRUE]
        away == IF aic.x > plc.x THEN [a.input EXCEPT !.right = TRUE]
                ELSE [a.input EXCEPT !.left = TRUE]
    IN
    IF a.current_action = "approach" THEN [a EXCEPT !.input = toward]
    ELSE IF a.current_action = "retreat" THEN [a EXCEPT !.input = away]
    ELSE IF a.current_action = "attack" THEN [a EXCEPT !.input.attack = TRUE]
    ELSE IF a.current_action = "special_attack" THEN [a EXCEPT !.input.special = TRUE]
    ELSE IF a.current_action = "block"
    THEN IF a.block_duration > 0 THEN [a EXCEPT !.input.block = TRUE]
         ELSE [a EXCEPT !.current_action = "idle"]
    ELSE IF a.current_action = "jump_attack"
    THEN IF a.action_timer < 200 THEN [a EXCEPT !.input.up = TRUE]
         ELSE IF a.action_timer < 500 THEN [a EXCEPT !.input = [toward EXCEPT !.attack = TRUE]]
         ELSE [a EXCEPT !.current_action = "idle"]
    ELSE a

\* _execute_action: "add some randomness to movement"
RandomFlip(a, r) ==
    IF r.flip = "left" THEN [a EXCEPT !.input.left = ~a.input.left]
    ELSE IF r.flip = "right" THEN [a EXCEPT !.input.right = ~a.input.right]
    ELSE a

\* faulty variant: a decision on every update
AIUpdateEveryTick(a, dt, aic, plc, r) ==
    LET a1 == [a EXCEPT !.input = NoInput,
                        !.last_decision_time = a.last_decision_time + dt,
                        !.action_timer = a.action_timer + dt,
                        !.attack_cooldown = Max(0, a.attack_cooldown - dt),
                        !.block_duration = Max(0, a.block_duration - dt),
                        !.special_attack_cooldown = Max(0, a.special_attack_cooldown - dt)]
        distance == Abs(aic.x - plc.x)
        a2 == [MakeDecision(a1, aic, plc, distance, r) EXCEPT !.last_decision_time = 0]
    IN RandomFlip(ExecuteAction(a2, aic, plc), r)

\* AIController.update: the controller after the call; its input field is the intent returned
AIUpdate(a, dt, aic, plc, r) ==
    LET a1 == [a EXCEPT !.input = NoInput,
                        !.last_decision_time = a.last_decision_time + dt,
                        !.action_timer = a.action_timer + dt,
                        !.attack_cooldown = Max(0, a.attack_cooldown - dt),
                        !.block_duration = Max(0, a.block_duration - dt),
                        !.special_attack_cooldown = Max(0, a.special_attack_cooldown - dt)]
        distance == Abs(aic.x - plc.x)
        a2 == IF a1.last_decision_time >= AIDecisionInterval
              THEN [MakeDecision(a1, aic, plc, distance, r) EXCEPT !.last_decision_time = 0]
              ELSE a1
    IN RandomFlip(ExecuteAction(a2, aic, plc), r)

----------------------------------------------------------------------------
(* Observation of the last frame, kept beside the program state.            *)
(*   dt      the dt the scene's update received                             *)
(*   struck  per strike: "none", "hit" (damage applied), "blocked"          *)
(*           (overlap, effective block) or "void" (overlap, nothing done)   *)
(*   stamina_before  the stamina combat resolution found                    *)
(*   hits    per strike: the attack id that last applied damage and how     *)
(*           many times that id has applied damage so far                   *)
(*   ends    number of _end_round calls of the frame                        *)

Strikes == {"p1_attack", "p1_special", "p2_attack", "p2_special"}

NoObs ==
    [op |-> "init", dt |-> 0,
     struck |-> [k \in Strikes |-> "none"],
     armed |-> [k \in Strikes |-> FALSE],
     updated |-> FALSE, waited |-> 0,
     stamina_before |-> [p1 |-> 0, p2 |-> 0],
     hits |-> [k \in Strikes |-> [id |-> 0, n |-> 0]],
     ends |-> 0]

ObsFrame(o, dt, a, b) ==
    [o EXCEPT !.op = "frame", !.dt = dt, !.struck = [k \in Strikes |-> "none"],
              !.armed = [k \in Strikes |-> FALSE], !.updated = FALSE,
              !.stamina_before = [p1 |-> a.stamina, p2 |-> b.stamina], !.ends = 0]

\* the time the scene has been updated with since its round ended
ObsDelay(o, round_over, dt) ==
    [o EXCEPT !.waited = IF round_over THEN o.waited + dt ELSE 0]

\* one more damage application by attack instance id of strike k
ObsHit(o, k, id) ==
    [o EXCEPT !.struck[k] = "hit",
              !.hits[k] = IF o.hits[k].id = id THEN [id |-> id, n |-> o.hits[k].n + 1]
                          ELSE [id |-> id, n |-> 1]]

----------------------------------------------------------------------------
(* scenes.FightScene *)

WinsNeeded == 3
RoundTime == 99000
RoundEndDuration == 2500
ThreatTime == 3000
FightDamage == 3
FightSpecialDamage == 8
GodModeDamage == 100

\* FightScene.__init__
FightSceneInit ==
    [player_wins |-> 0, ai_wins |-> 0, current_round |-> 1,
     round_time |-> RoundTime, round_over |-> FALSE, round_winner |-> "None",
     match_over |-> FALSE, match_winner |-> "None", round_end_timer |-> 0,
     is_paused |-> FALSE, showing_dialogue |-> FALSE, dialogue_phase |-> "threat",
     dialogue_timer |-> 0, dialogue_complete |-> FALSE]

\* the test of a check of FightScene._handle_combat: the attack (normal or special)
\* of fighter a has a hitbox and it overlaps fighter d
Reaches(a, d, special) ==
    /\ (IF special THEN GetSpecialAttackRect(a) ELSE GetAttackRect(a)) # NoRect
    /\ CollideRect(IF special THEN GetSpecialAttackRect(a) ELSE GetAttackRect(a), GetRect(d))

\* the strikes that reach their target as _handle_combat is entered
Armed(a, b) ==
    [k \in Strikes |-> IF k = "p1_attack" THEN Reaches(a, b, FALSE)
                       ELSE IF k = "p1_special" THEN Reaches(a, b, TRUE)
                       ELSE IF k = "p2_attack" THEN Reaches(b, a, FALSE)
                       ELSE Reaches(b, a, TRUE)]

\* One of the four checks of FightScene._handle_combat: the strike of fighter att
\* (normal or special) against fighter def
FightStrike(w, att, def, special) ==
    LET a == w[att]
        d == w[def]
        k == IF att = "p1" THEN (IF special THEN "p1_special" ELSE "p1_attack")
             ELSE (IF special THEN "p2_special" ELSE "p2_attack")
        box == IF special THEN GetSpecialAttackRect(a) ELSE GetAttackRect(a)
        damage == IF att = "p1" /\ a.god_mode THEN GodModeDamage
                  ELSE IF special THEN FightSpecialDamage ELSE FightDamage
        td == TakeDamage(d, damage, a.x)
        id == IF special THEN a.current_special_attack_id ELSE a.current_attack_id
    IN IF box # NoRect /\ CollideRect(box, GetRect(d))
       THEN IF td.ret
            THEN [w EXCEPT ![def] = td.c,
                           ![att] = IF special THEN [a EXCEPT !.can_special_hit = FALSE]
                                    ELSE [a EXCEPT !.can_hit = FALSE],
                           !.obs = ObsHit(w.obs, k, id)]
            ELSE [w EXCEPT ![def] = td.c,
                           !.obs.struck[k] = IF EffectiveBlock(d, a.x) THEN "blocked" ELSE "void"]
       ELSE w

\* FightScene._handle_combat
HandleCombat(w) ==
    FightStrike(FightStrike(FightStrike(FightStrike(w, "p1", "p2", FALSE),
                                        "p1", "p2", TRUE),
                            "p2", "p1", FALSE),
                "p2", "p1", TRUE)

\* faulty variant: the match is over one win early
EndRoundEarly(w, result) ==
    LET player == result = "player_win" \/ (result = "time" /\ w.p1.health > w.p2.health)
        twin == result = "ai_win" \/ (result = "time" /\ w.p2.health > w.p1.health)
        pw == w.sc.player_wins + (IF player THEN 1 ELSE 0)
        aw == w.sc.ai_wins + (IF twin THEN 1 ELSE 0)
        s1 == [w.sc EXCEPT !.round_over = TRUE, !.round_end_timer = 0,
                           !.round_winner = IF player THEN "Player"
                                            ELSE IF twin THEN "Evil Twin" ELSE "Draw",
                           !.player_wins = pw, !.ai_wins = aw]
        s2 == IF pw >= WinsNeeded - 1
              THEN [s1 EXCEPT !.showing_dialogue = TRUE, !.dialogue_phase = "threat",
                              !.dialogue_timer = 0]
              ELSE IF aw >= WinsNeeded - 1
              THEN [s1 EXCEPT !.match_over = TRUE, !.match_winner = "Evil Twin"]
              ELSE s1
    IN [w EXCEPT !.sc = s2, !.obs.ends = w.obs.ends + 1]

\* FightScene._end_round
EndRound(w, result) ==
    LET player == result = "player_win" \/ (result = "time" /\ w.p1.health > w.p2.health)
        twin == result = "ai_win" \/ (result = "time" /\ w.p2.health > w.p1.health)
        pw == w.sc.player_wins + (IF player THEN 1 ELSE 0)
        aw == w.sc.ai_wins + (IF twin THEN 1 ELSE 0)
        s1 == [w.sc EXCEPT !.round_over = TRUE, !.round_end_timer = 0,
                           !.round_winner = IF player THEN "Player"
                                            ELSE IF twin THEN "Evil Twin" ELSE "Draw",
                           !.player_wins = pw, !.ai_wins = aw]
        s2 == IF pw >= WinsNeeded
              THEN [s1 EXCEPT !.showing_dialogue = TRUE, !.dialogue_phase = "threat",
                              !.dialogue_timer = 0]
              ELSE IF aw >= WinsNeeded
              THEN [s1 EXCEPT !.match_over = TRUE, !.match_winner = "Evil Twin"]
              ELSE s1
    IN [w EXCEPT !.sc = s2, !.obs.ends = w.obs.ends + 1]

\* faulty variant: the death flag survives the reset
RoundResetKeepsDead(c, x) ==
    [c EXCEPT !.x = x, !.y = GroundY * U, !.health = c.max_health,
              !.velocity_x = 0, !.velocity_y = 0, !.is_attacking = FALSE,
              !.is_blocking = FALSE, !.attack_cooldown = 0, !.on_ground = TRUE]

\* _start_new_round: the fields of one fighter that are reset
RoundReset(c, x) ==
    [c EXCEPT !.x = x, !.y = GroundY * U, !.health = c.max_health,
              !.velocity_x = 0, !.velocity_y = 0, !.is_attacking = FALSE,
              !.is_blocking = FALSE, !.attack_cooldown = 0, !.on_ground = TRUE,
              !.is_dead = FALSE]

\* FightScene._start_new_round
StartNewRound(w) ==
    IF w.sc.match_over THEN w
    ELSE [w EXCEPT !.sc.current_round = w.sc.current_round + 1,
                   !.sc.round_over = FALSE, !.sc.round_winner = "None",
                   !.sc.round_time = RoundTime,
                   !.p1 = RoundReset(w.p1, 0), !.p2 = RoundReset(w.p2, 600 * U)]

\* FightScene.update: the timer step
FightTimer(w, dt) ==
    IF w.sc.round_time - dt <= 0
    THEN EndRound([w EXCEPT !.sc.round_time = 0], "time")
    ELSE [w EXCEPT !.sc.round_time = w.sc.round_time - dt]

\* faulty variant: the AI's death is looked at first
FightKnockoutPlayerFirst(w) ==
    IF w.p1.health <= 0 /\ ~w.p1.is_dead THEN w
    ELSE IF w.p2.health <= 0 /\ ~w.p2.is_dead THEN w
    ELSE IF w.p2.is_dead /\ IsDeathAnimationFinished(w.p2) THEN EndRound(w, "player_win")
    ELSE IF w.p1.is_dead /\ IsDeathAnimationFinished(w.p1) THEN EndRound(w, "ai_win")
    ELSE w

\* FightScene.update: the knockout check
FightKnockout(w) ==
    IF w.p1.health <= 0 /\ ~w.p1.is_dead THEN w
    ELSE IF w.p2.health <= 0 /\ ~w.p2.is_dead THEN w
    ELSE IF w.p1.is_dead /\ IsDeathAnimationFinished(w.p1) THEN EndRound(w, "ai_win")
    ELSE IF w.p2.is_dead /\ IsDeathAnimationFinished(w.p2) THEN EndRound(w, "player_win")
    ELSE w

\* FightScene.update: the round end delay, once its timer w has advanced
FightRoundEnd(w) ==
    IF w.sc.round_end_timer >= RoundEndDuration THEN StartNewRound(w) ELSE w

\* FightScene.update: after both characters are updated
FightRound(w, dt) ==
    IF w.sc.round_over
    THEN FightRoundEnd([w EXCEPT !.sc.round_end_timer = w.sc.round_end_timer + dt])
    ELSE FightKnockout(FightTimer(HandleCombat(
             [w EXCEPT !.obs.stamina_before = [p1 |-> w.p1.stamina, p2 |-> w.p2.stamina],
                       !.obs.armed = Armed(w.p1, w.p2)]),
             dt))

\* FightScene.update
FightUpdate(w, dt, in1, in2) ==
    IF w.sc.match_over THEN w
    ELSE FightRound([w EXCEPT !.p1 = CharUpdate(w.p1, dt, in1),
                              !.p2 = CharUpdate(w.p2, dt, in2),
                              !.obs.updated = TRUE], dt)

\* FightScene.handle_dialogue_input, for a frame whose events hold a confirm
\* key (RETURN or SPACE) or no key; choice selection only sets the narrative choice
HandleDialogueInput(s, confirm) ==
    IF ~s.showing_dialogue \/ ~confirm THEN s
    ELSE IF s.dialogue_phase = "choices"
    THEN [s EXCEPT !.dialogue_phase = "outcome", !.dialogue_timer = 0]
    ELSE IF s.dialogue_phase = "outcome" THEN [s EXCEPT !.dialogue_complete = TRUE]
    ELSE s

\* FightScene.update_dialogue
UpdateDialogue(s, dt) ==
    IF ~s.showing_dialogue THEN s
    ELSE LET s1 == [s EXCEPT !.dialogue_timer = s.dialogue_timer + dt]
             s2 == IF s1.dialogue_phase = "threat" /\ s1.dialogue_timer >= ThreatTime
                   THEN [s1 EXCEPT !.dialogue_phase = "choices", !.dialogue_timer = 0]
                   ELSE s1
         IN IF s2.dialogue_complete
            THEN [s2 EXCEPT !.match_over = TRUE, !.match_winner = "Player",
                            !.showing_dialogue = FALSE]
            ELSE s2

\* FightScene.update_pause
UpdatePause(s, paused) == [s EXCEPT !.is_paused = paused]

----------------------------------------------------------------------------
(* character.YellowNinja *)

NinjaWidth == 72
NinjaHeight == 72
NinjaDecisionInterval == 150
NinjaSpecialCooldownTime == 8000
NinjaTeleportWindow == 300
NinjaTeleportOffset == 30

\* YellowNinja.__init__
YellowNinja(x, y) ==
    [ai_timer |-> 0, ai_current_action |-> "idle"] @@
    [Character("YellowNinja", x, y, FALSE, BaseSpeed, NinjaWidth, NinjaHeight, NinjaClips)
        EXCEPT !.special_attack_cooldown_time = NinjaSpecialCooldownTime]

\* YellowNinja.update: "apply physics manually"
NinjaPhysics(c, dt, gravity, ground_y) ==
    IF c.is_dead THEN c
    ELSE LET c1 == IF ~c.on_ground THEN [c EXCEPT !.velocity_y = c.velocity_y + gravity * dt]
                   ELSE c
             c2 == [c1 EXCEPT !.x = c1.x + c1.velocity_x * dt, !.y = c1.y + c1.velocity_y * dt]
         IN IF c2.y >= ground_y
            THEN [c2 EXCEPT !.y = ground_y, !.velocity_y = 0, !.on_ground = TRUE]
            ELSE [c2 EXCEPT !.on_ground = FALSE]

\* YellowNinja._make_ai_decision (lucky: the outcome of random() < ai_aggression)
NinjaDecision(c, player, lucky) ==
    LET distance == Abs(c.x - player.x)
        action ==
            IF player.is_attacking /\ distance < 100 * U
            THEN IF c.stamina >= 50 * SU THEN "block" ELSE "retreat"
            ELSE IF distance < 70 * U
            THEN IF c.stamina >= 50 * SU /\ lucky
                 THEN IF c.special_attack_cooldown <= 0 THEN "special_attack" ELSE "attack"
                 ELSE "block"
            ELSE IF distance < 180 * U
            THEN IF lucky THEN "approach" ELSE "idle"
            ELSE "approach"
    IN [c EXCEPT !.ai_current_action = action]

\* faulty variant: the teleport puts the ninja in front of the player
NinjaTeleportInFront(c, player) ==
    LET c1 == [c EXCEPT !.is_special_attacking = TRUE,
                        !.special_attack_duration = NinjaTeleportWindow,
                        !.x = IF player.facing_right
                              THEN player.x + (player.width + NinjaTeleportOffset) * U
                              ELSE player.x - (c.width + NinjaTeleportOffset) * U,
                        !.facing_right = player.facing_right,
                        !.y = player.y, !.on_ground = TRUE,
                        !.current_attack_id = c.current_attack_id + 1,
                        !.is_attacking = TRUE, !.attack_duration = AttackDuration,
                        !.can_hit = FALSE,
                        !.special_attack_cooldown = c.special_attack_cooldown_time]
    IN PlayAnimation(c1, "attack", TRUE)

\* _execute_ai_action: the teleport strike of the special attack
NinjaTeleport(c, player) ==
    LET c1 == [c EXCEPT !.is_special_attacking = TRUE,
                        !.special_attack_duration = NinjaTeleportWindow,
                        !.x = IF player.facing_right
                              THEN player.x - (c.width + NinjaTeleportOffset) * U
                              ELSE player.x + (player.width + NinjaTeleportOffset) * U,
                        !.facing_right = player.facing_right,
                        !.y = player.y, !.on_ground = TRUE,
                        !.current_attack_id = c.current_attack_id + 1,
                        !.is_attacking = TRUE, !.attack_duration = AttackDuration,
                        !.can_hit = FALSE,
                        !.special_attack_cooldown = c.special_attack_cooldown_time]
    IN PlayAnimation(c1, "attack", TRUE)

\* YellowNinja._execute_ai_action
NinjaExecute(c, player) ==
    LET desired_facing_right == IF Abs(c.x - player.x) > 8 * U THEN c.x < player.x
                                ELSE c.facing_right
        fast == (c.speed * 11) \div 10
    IN
    IF c.ai_current_action = "approach"
    THEN [c EXCEPT !.velocity_x = IF desired_facing_right THEN fast ELSE -fast,
                   !.facing_right = desired_facing_right]
    ELSE IF c.ai_current_action = "retreat"
    THEN [c EXCEPT !.velocity_x = IF desired_facing_right THEN -c.speed ELSE c.speed,
                   !.facing_right = desired_facing_right]
    ELSE IF c.ai_current_action = "attack"
    THEN LET c1 == [c EXCEPT !.velocity_x = 0]
         IN IF ~c1.is_attacking /\ c1.attack_cooldown <= 0 THEN Attack(c1) ELSE c1
    ELSE IF c.ai_current_action = "special_attack"
    THEN LET c1 == [c EXCEPT !.velocity_x = 0]
         IN IF ~c1.is_attacking /\ c1.special_attack_cooldown <= 0 /\ ~c1.is_special_attacking
            THEN NinjaTeleport(c1, player) ELSE c1
    ELSE IF c.ai_current_action = "block"
    THEN [c EXCEPT !.velocity_x = 0, !.is_blocking = TRUE]
    ELSE [c EXCEPT !.velocity_x = 0, !.is_blocking = FALSE]

\* YellowNinja._update_ai
NinjaAI(c, dt, player, lucky) ==
    IF c.is_dead THEN c
    ELSE LET c1 == [c EXCEPT !.ai_timer = c.ai_timer + dt]
             c2 == IF c1.ai_timer >= NinjaDecisionInterval
                   THEN NinjaDecision([c1 EXCEPT !.ai_timer = 0], player, lucky)
                   ELSE c1
         IN NinjaExecute(c2, player)

\* YellowNinja.update: "enforce arena boundaries"
NinjaClamp(c, arena_left, arena_right) ==
    IF c.x < arena_left * U THEN [c EXCEPT !.x = arena_left * U]
    ELSE IF c.x > arena_right * U THEN [c EXCEPT !.x = arena_right * U]
    ELSE c

\* YellowNinja._update_animation_state
NinjaAnimationState(c) ==
    LET desired == IF c.is_dead THEN "dead"
                   ELSE IF c.is_hit /\ c.hit_duration > 0 THEN "hit"
                   ELSE IF c.is_attacking THEN "attack"
                   ELSE IF c.is_blocking THEN "block"
                   ELSE IF Abs(c.velocity_x) > 10 * MV THEN "walk"
                   ELSE "idle"
    IN IF c.anim # desired
       THEN PlayAnimation(c, desired, desired \in {"attack", "hit", "dead"})
       ELSE c

\* YellowNinja.update
NinjaUpdate(c, dt, gravity, ground_y, opponent, arena_left, arena_right, lucky) ==
    AnimatorUpdate(
        NinjaAnimationState(
            NinjaClamp(
                NinjaAI(NinjaPhysics(UpdateCombat(c, dt), dt, gravity, ground_y),
                        dt, opponent, lucky),
                arena_left, arena_right)),
        dt)

----------------------------------------------------------------------------
(* scenes.Level2Scene *)

Level2Damage == 25
Level2Reach == 60
Level2BlockCost == 50
Level2Gravity == 2000
SpawnOffsetPlayer == 300
SpawnOffsetEnemy == 265
CheatTimeout == 2000

\* Level2Scene.__init__ (no ground image: _load_background leaves the spawn heights)
Level2SceneInit == [FightSceneInit EXCEPT !.dialogue_phase = "victory"]

\* Level2Scene._is_facing_target
IsFacingTarget(attacker, target) ==
    \/ (attacker.facing_right /\ target.x > attacker.x)
    \/ (~attacker.facing_right /\ target.x < attacker.x)

\* Level2Scene._deal_damage
DealDamage(target, damage) ==
    LET h == Max(0, target.health - damage)
    IN [target EXCEPT !.health = h, !.is_hit = TRUE, !.hit_duration = HitAnimationTime,
                      !.is_dead = IF h <= 0 THEN TRUE ELSE target.is_dead]

\* faulty variant: a blocked strike costs the defender no stamina
Level2StrikeFreeBlock(w, att, def, distance) ==
    LET a == w[att]
        d == w[def]
        k == IF att = "p1" THEN "p1_attack" ELSE "p2_attack"
    IN IF a.is_attacking /\ a.can_hit /\ distance < Level2Reach * U /\ IsFacingTarget(a, d)
       THEN IF d.is_blocking
            THEN [w EXCEPT ![att] = [a EXCEPT !.can_hit = FALSE],
                           !.obs.struck[k] = "blocked"]
            ELSE [w EXCEPT ![att] = [a EXCEPT !.can_hit = FALSE],
                           ![def] = DealDamage(d, IF att = "p1" /\ a.god_mode
                                                  THEN GodModeDamage ELSE Level2Damage),
                           !.obs = ObsHit(w.obs, k, a.current_attack_id)]
       ELSE w

\* One of the two checks of Level2Scene._check_collisions
Level2Strike(w, att, def, distance) ==
    LET a == w[att]
        d == w[def]
        k == IF att = "p1" THEN "p1_attack" ELSE "p2_attack"
    IN IF a.is_attacking /\ a.can_hit /\ distance < Level2Reach * U /\ IsFacingTarget(a, d)
       THEN IF d.is_blocking
            THEN LET d1 == [d EXCEPT !.stamina = Max(0, d.stamina - Level2BlockCost * SU)]
                 IN [w EXCEPT ![att] = [a EXCEPT !.can_hit = FALSE],
                              ![def] = IF d1.stamina <= 0 THEN StartStun(d1) ELSE d1,
                              !.obs.struck[k] = "blocked"]
            ELSE [w EXCEPT ![att] = [a EXCEPT !.can_hit = FALSE],
                           ![def] = DealDamage(d, IF att = "p1" /\ a.god_mode
                                                  THEN GodModeDamage ELSE Level2Damage),
                           !.obs = ObsHit(w.obs, k, a.current_attack_id)]
       ELSE w

\* Level2Scene._check_collisions
CheckCollisions(w) ==
    LET distance == Abs(w.p1.x - w.p2.x)
    IN Level2Strike(Level2Strike(w, "p1", "p2", distance), "p2", "p1", distance)

\* Level2Scene._end_round
Level2EndRound(w, reason) ==
    LET player == reason = "player_wins" \/ (reason = "timeout" /\ w.p1.health > w.p2.health)
        enemy == reason = "ai_wins" \/ (reason = "timeout" /\ w.p2.health > w.p1.health)
        pw == w.sc.player_wins + (IF player THEN 1 ELSE 0)
        aw == w.sc.ai_wins + (IF enemy THEN 1 ELSE 0)
        s1 == [w.sc EXCEPT !.round_over = TRUE, !.round_end_timer = 0,
                           !.round_winner = IF player THEN "Player"
                                            ELSE IF reason = "ai_wins" THEN "Yellow Ninja"
                                            ELSE IF enemy THEN "Block Enemy" ELSE "Draw",
                           !.player_wins = pw, !.ai_wins = aw]
        s2 == IF pw >= WinsNeeded
              THEN [s1 EXCEPT !.match_over = TRUE, !.match_winner = "Player",
                              !.dialogue_timer = 0, !.showing_dialogue = TRUE]
              ELSE IF aw >= WinsNeeded
              THEN [s1 EXCEPT !.match_over = TRUE, !.match_winner = "Yellow Ninja"]
              ELSE s1
    IN [w EXCEPT !.sc = s2, !.obs.ends = w.obs.ends + 1]

\* _start_next_round: the fields of one fighter that are reset
Level2Reset(c, x, y) ==
    [c EXCEPT !.x = x, !.y = y, !.health = c.max_health, !.velocity_x = 0,
              !.velocity_y = 0, !.is_attacking = FALSE, !.is_blocking = FALSE,
              !.attack_cooldown = 0, !.on_ground = TRUE, !.is_dead = FALSE,
              !.is_hit = FALSE, !.stamina = c.max_stamina, !.is_stunned = FALSE]

\* Level2Scene._start_next_round
StartNextRound(w) ==
    [w EXCEPT !.sc.current_round = w.sc.current_round + 1,
              !.sc.round_over = FALSE, !.sc.round_winner = "None",
              !.sc.round_time = RoundTime,
              !.p1 = [Level2Reset(w.p1, 0, (GroundY + SpawnOffsetPlayer) * U)
                         EXCEPT !.ground_y = (GroundY + SpawnOffsetPlayer) * U],
              !.p2 = Level2Reset(w.p2, 600 * U, (GroundY + SpawnOffsetEnemy) * U)]

\* Level2Scene.update: the round end delay, once its timer has advanced
Level2RoundEnd(w) ==
    IF w.sc.round_end_timer >= RoundEndDuration THEN StartNextRound(w) ELSE w

\* Level2Scene.update: the enemy is updated against the player already updated
Level2Enemy(w, q2) ==
    [w EXCEPT !.p2 = q2, !.obs.updated = TRUE,
              !.obs.stamina_before = [p1 |-> w.p1.stamina, p2 |-> q2.stamina]]

Level2Fighters(w, dt, lucky) ==
    Level2Enemy(w, NinjaUpdate(w.p2, dt, Level2Gravity, (GroundY + SpawnOffsetEnemy) * U,
                               w.p1, ArenaLeft, ArenaRight, lucky))

\* Level2Scene.update: "check for deaths"
Level2Deaths(w) ==
    IF w.p1.is_dead THEN Level2EndRound(w, "ai_wins")
    ELSE IF w.p2.is_dead THEN Level2EndRound(w, "player_wins")
    ELSE w

\* Level2Scene.update (lucky: the ninja's random draw of the frame)
Level2Update(w, dt, in1, lucky) ==
    IF w.sc.showing_dialogue THEN [w EXCEPT !.sc.dialogue_timer = w.sc.dialogue_timer + dt]
    ELSE IF w.sc.is_paused \/ w.sc.match_over THEN w
    ELSE IF w.sc.round_over
    THEN Level2RoundEnd([w EXCEPT !.sc.round_end_timer = w.sc.round_end_timer + dt])
    ELSE IF w.sc.round_time - dt <= 0
    THEN Level2EndRound([w EXCEPT !.sc.round_time = 0], "timeout")
    ELSE Level2Deaths(CheckCollisions(Level2Fighters(
             [w EXCEPT !.sc.round_time = w.sc.round_time - dt,
                       !.p1 = CharUpdate(w.p1, dt, in1)], dt, lucky)))

\* Level2Scene.handle_input for the events of a frame: a confirm key (RETURN or
\* SPACE) and/or the letters of the cheat code; ESCAPE never reaches the scene
Level2HandleInput(w, ev) ==
    IF w.sc.showing_dialogue
    THEN IF ev.confirm THEN [w EXCEPT !.sc.dialogue_complete = TRUE] ELSE w
    ELSE IF ev.cheat /\ w.sc.round_time <= CheatTimeout
    THEN [w EXCEPT !.p1.god_mode = ~w.p1.god_mode]
    ELSE w

----------------------------------------------------------------------------
(* engine.GameEngine *)

\* the input of one frame: the keys held when the frame samples the keyboard,
\* ESCAPE pressed, a confirm key pressed, the cheat code completed
NoEvents == [keys |-> NoInput, esc |-> FALSE, confirm |-> FALSE, cheat |-> FALSE]

\* GameEngine._switch_to_level2_scene: a new Level2Scene; engine state is kept
SwitchToLevel2(w) ==
    [w EXCEPT !.mode = "level2", !.sc = Level2SceneInit,
              !.p1 = Samurai1(0, GroundY), !.p2 = YellowNinja(600, GroundY)]

\* GameEngine.handle_events: ESCAPE toggles the pause, the scene gets the dialogue
\* keys and the player the cheat code
FightEvents(w, ev) ==
    [w EXCEPT !.eng.paused = IF ev.esc THEN ~w.eng.paused ELSE w.eng.paused,
              !.sc = HandleDialogueInput(w.sc, ev.confirm),
              !.p1.god_mode = IF ev.cheat THEN ~w.p1.god_mode ELSE w.p1.god_mode,
              !.ih.keys = ev.keys]

\* GameEngine.update: the input handler (unless paused) and the AI produce the intents
FightInputs(w, dt, r) ==
    [w EXCEPT !.ih = IF ~w.eng.paused THEN InputHandlerUpdate(w.ih, dt) ELSE w.ih,
              !.ai = AIUpdate(w.ai, dt, w.p2, w.p1, r)]

\* GameEngine.update: the scene is updated with dt, or with 0 to freeze the game
\* logic during pause and dialogue
UpdateFightScene(w, sdt) ==
    FightUpdate([w EXCEPT !.obs = ObsDelay(ObsFrame(w.obs, sdt, w.p1, w.p2),
                                           w.sc.round_over, sdt)], sdt,
                w.ih.player1_input, w.ai.input)

FightFrozen(w, dt) ==
    UpdateFightScene(w, IF ~w.eng.paused /\ ~w.sc.showing_dialogue THEN dt ELSE 0)

\* GameEngine.update: the match is over, or the pause and the dialogue advance
FightTransition(w, dt) ==
    IF w.sc.match_over /\ w.sc.dialogue_complete
    THEN SwitchToLevel2(w)
    ELSE [w EXCEPT !.sc = UpdateDialogue(UpdatePause(w.sc, w.eng.paused), dt)]

\* GameEngine.handle_events and GameEngine.update, scene_type "fight"
FightFrame(w, dt, ev, r) ==
    FightTransition(FightFrozen(FightInputs(FightEvents(w, ev), dt, r), dt), dt)

\* GameEngine.handle_events and GameEngine.update, scene_type "level2"
Level2Inputs(w, dt, ev) ==
    [w EXCEPT !.ih = IF ~w.eng.paused
                     THEN InputHandlerUpdate([w.ih EXCEPT !.keys = ev.keys], dt)
                     ELSE [w.ih EXCEPT !.keys = ev.keys],
              !.obs = ObsDelay(ObsFrame(w.obs, dt, w.p1, w.p2), w.sc.round_over, dt)]

UpdateLevel2Scene(w, dt, r) == Level2Update(w, dt, w.ih.player1_input, r.ninja)

Level2Frame(w, dt, ev, r) ==
    UpdateLevel2Scene(Level2Inputs(Level2HandleInput(w, ev), dt, ev), dt, r)

\* one iteration of GameEngine.run on the current scene
Frame(w, dt, ev, r) ==
    IF w.mode = "fight" THEN FightFrame(w, dt, ev, r) ELSE Level2Frame(w, dt, ev, r)

----------------------------------------------------------------------------
(* The game: GameEngine.run on a FightScene or a Level2Scene.               *)
(* A run starts where the engine starts the scene.  The player first plays  *)
(* the opening of the run, a fixed sequence of held keys (bud.plan), and    *)
(* from there on any input within the bounds of the run.                    *)

\* dt = clock.tick(60) / 1000 of a frame, in ms
FrameTimes == {34}

\* the key combinations the player holds
KeySets ==
    {NoInput} \cup {[NoInput EXCEPT ![k] = TRUE] : k \in {"right", "left", "up", "attack", "block", "special"}}

\* the random draws of a frame: none succeeds, or the draws that select one
\* outcome of the decision succeed
Draws ==
    {NoLuck}
    \cup {[NoLuck EXCEPT ![k] = TRUE] :
            k \in {"surprise", "finishing", "block", "aggro", "retreat", "approach", "jump", "ninja"}}
    \cup {[NoLuck EXCEPT !.block = TRUE, !.chance = TRUE],
          [NoLuck EXCEPT !.block = TRUE, !.counter = TRUE],
          [NoLuck EXCEPT !.flip = "left"], [NoLuck EXCEPT !.flip = "right"]}

\* the whole program state as one record
World ==
    [mode |-> mode, p1 |-> p1, p2 |-> p2, sc |-> sc, eng |-> eng, ih |-> ih, ai |-> ai,
     obs |-> obs]

\* GameEngine._switch_to_fight_scene from the menu
FightStart ==
    [mode |-> "fight", p1 |-> Samurai1(150, GroundY), p2 |-> Samurai2(600, GroundY),
     sc |-> FightSceneInit, eng |-> [paused |-> FALSE], ih |-> InputHandlerInit,
     ai |-> AIControllerInit, obs |-> NoObs]

\* GameEngine._switch_to_level2_scene from the level select menu
Level2Start == SwitchToLevel2(FightStart)

\* n frames of the opening with the same input
Hold(n, k, cheat, r) == [n |-> n, keys |-> k, cheat |-> cheat, r |-> r]
Key(k) == [NoInput EXCEPT ![k] = TRUE]

Scripted == bud.plan # <<>>

\* the inputs of the next frame: the opening's, or any the run can still afford
\* (an input the frame would not read is left out)
KeyChoices ==
    IF Scripted THEN {Head(bud.plan).keys}
    ELSE IF bud.events > 0 THEN KeySets ELSE {ih.keys}
EscChoices ==
    IF ~Scripted /\ bud.events > 0 /\ mode = "fight" THEN BOOLEAN ELSE {FALSE}
ConfirmChoices ==
    IF ~Scripted /\ bud.confirm > 0 /\ sc.showing_dialogue THEN BOOLEAN ELSE {FALSE}
CheatChoices ==
    IF Scripted THEN {Head(bud.plan).cheat}
    ELSE IF bud.events > 0 /\ (mode = "fight" \/ sc.round_time <= CheatTimeout) THEN BOOLEAN
    ELSE {FALSE}
DrawChoices ==
    IF Scripted THEN {Head(bud.plan).r}
    ELSE IF bud.events > 0
    THEN {r \in Draws : r.ninja = (mode = "level2" /\ r # NoLuck)}
    ELSE {NoLuck}

\* what is left of the run after a frame with these inputs
Spend(ev, r) ==
    IF Scripted
    THEN [bud EXCEPT !.plan = IF Head(bud.plan).n > 1
                              THEN [bud.plan EXCEPT ![1].n = @ - 1]
                              ELSE Tail(bud.plan)]
    ELSE [bud EXCEPT !.ticks = @ - 1,
                     !.confirm = @ - (IF ev.confirm THEN 1 ELSE 0),
                     !.events = @ - (IF ev.keys # ih.keys THEN 1 ELSE 0)
                                  - (IF ev.esc THEN 1 ELSE 0)
                                  - (IF ev.cheat THEN 1 ELSE 0)
                                  - (IF r # NoLuck THEN 1 ELSE 0)]

\* the program state after the frame is n
Becomes(n) ==
    /\ mode' = n.mode /\ p1' = n.p1 /\ p2' = n.p2 /\ sc' = n.sc /\ eng' = n.eng
    /\ ih' = n.ih /\ ai' = n.ai /\ obs' = n.obs

Run(dt, ev, r) ==
    /\ Spend(ev, r).events >= 0
    /\ Becomes(Frame(World, dt, ev, r))
    /\ bud' = Spend(ev, r)

\* a frame of GameEngine.run while the FightScene is the current scene
FightTick ==
    /\ mode = "fight"
    /\ Scripted \/ bud.ticks > 0
    /\ \E dt \in FrameTimes, k \in KeyChoices, esc \in EscChoices, confirm \in ConfirmChoices,
          cheat \in CheatChoices, r \in DrawChoices :
          Run(dt, [keys |-> k, esc |-> esc, confirm |-> confirm, cheat |-> cheat], r)

\* a frame of GameEngine.run while the Level2Scene is the current scene
Level2Tick ==
    /\ mode = "level2"
    /\ Scripted \/ bud.ticks > 0
    /\ \E dt \in FrameTimes, k \in KeyChoices, confirm \in ConfirmChoices,
          cheat \in CheatChoices, r \in DrawChoices :
          Run(dt, [keys |-> k, esc |-> FALSE, confirm |-> confirm, cheat |-> cheat], r)

\* bounds of the runs
MaxTicks == 16
MaxEvents == 1
MaxConfirm == 2

Idle(n) == Hold(n, NoInput, FALSE, NoLuck)
Keys(n, k) == Hold(n, k, FALSE, NoLuck)
Aggro == [NoLuck EXCEPT !.aggro = TRUE]
RightAttack == [NoInput EXCEPT !.right = TRUE, !.attack = TRUE]

\* openings: the frames a run plays before its inputs are free
\* the player walks up to the AI and blocks as the AI starts an attack
FightClose == <<Keys(22, Key("right")), Hold(2, Key("block"), FALSE, Aggro)>>
\* god mode, then an attack timed so that the opponent's death animation ends on the
\* frame the round timer runs out
FightLate ==
    <<Hold(1, NoInput, TRUE, NoLuck), Idle(2840), Keys(2, Key("right")), Idle(26),
      Keys(31, Key("attack"))>>
\* god mode and the attack held, up to the third round
FightMatchPlayer == <<Hold(1, NoInput, TRUE, NoLuck), Keys(270, Key("attack"))>>
\* the same match, up to the choices of the victory dialogue
FightDialogue == <<Hold(1, NoInput, TRUE, NoLuck), Keys(367, Key("attack"))>>
\* the player stands still and the AI attacks whenever it may, up to the third round
FightMatchAI == <<Hold(1870, NoInput, FALSE, Aggro)>>
\* god mode, the player walks up to the AI and both attack at once
FightTrade ==
    <<Hold(1, NoInput, TRUE, NoLuck), Keys(22, Key("right")),
      Hold(14, Key("attack"), FALSE, Aggro)>>
\* the player walks up to the AI, starts a special attack and blocks while the AI
\* attacks: both strikes reach their hit frame on the same frame
FightTradeBlock ==
    <<Keys(22, Key("right")), Idle(3), Keys(1, Key("special")),
      Hold(16, Key("block"), FALSE, Aggro)>>
\* the same, then god mode: the special attack kills the AI in the middle of its
\* attack, with its hit latch set, while the player still blocks
FightDeadStrike ==
    <<Keys(22, Key("right")), Idle(3), Keys(1, Key("special")),
      Hold(16, Key("block"), FALSE, Aggro), Hold(1, Key("block"), TRUE, NoLuck),
      Keys(3, Key("block"))>>
\* the AI attacks whenever it may and the player blocks the second hit of its first
\* attack, which leaves the player at 1 health after frame 531; in god mode the
\* player's attack then lands on frame 559, on which the AI strikes again: both
\* die on that frame
FightDoubleKnockout ==
    <<Hold(66, NoInput, FALSE, Aggro), Hold(1, Key("block"), FALSE, Aggro),
      Hold(479, NoInput, FALSE, Aggro), Hold(1, Key("attack"), TRUE, Aggro),
      Hold(38, Key("attack"), FALSE, Aggro)>>
\* the player walks up to the ninja
Level2Close == <<Keys(45, Key("right"))>>
\* the player walks past the middle of the arena and turns round beside the ninja,
\* whose next decision is the teleport strike
Level2Corner ==
    <<Keys(48, Key("right")), Keys(1, Key("left")),
      Hold(1, NoInput, FALSE, [NoLuck EXCEPT !.ninja = TRUE])>>
\* the player walks to the left bound of the arena and turns round; the ninja comes
\* up and its first decision in reach, on frame 90, is the teleport strike
Level2Edge ==
    <<Keys(12, Key("left")), Keys(1, Key("right")),
      Hold(77, NoInput, FALSE, [NoLuck EXCEPT !.ninja = TRUE])>>
\* the player lands four hits on the ninja, the last on frame 138
Level2Kill ==
    <<Keys(27, Key("right")), Keys(3, Key("attack")), Keys(12, Key("right")),
      Keys(6, Key("attack")), Keys(9, Key("right")), Keys(3, Key("left")),
      Keys(3, Key("right")), Idle(3), Keys(3, Key("attack")), Keys(3, Key("left")),
      Keys(9, Key("attack")), Keys(12, Key("right")), Keys(3, Key("attack")),
      Keys(18, Key("left")), Keys(3, Key("attack")), Keys(3, Key("left")),
      Keys(3, Key("attack")), Keys(3, RightAttack), Keys(3, Key("right")),
      Keys(3, Key("left")), Keys(6, Key("right"))>>
\* the same, up to the second round
Level2KillReset == Level2Kill \o <<Idle(90)>>
\* three rounds in which the player lands one hit and the timer runs out
Level2Match ==
    <<Keys(45, Key("right")), Keys(57, Key("attack")), Keys(14, RightAttack), Idle(2870),
      Keys(45, Key("right")), Keys(61, Key("attack")), Keys(11, RightAttack), Idle(2869),
      Keys(45, Key("right")), Keys(60, Key("attack")), Keys(11, RightAttack), Idle(2782)>>

\* a run: where it starts, its opening and its bounds
RunOf(start, plan) ==
    [start |-> start, plan |-> plan, ticks |-> MaxTicks, events |-> MaxEvents,
     confirm |-> MaxConfirm]
Runs ==
    { RunOf(FightStart, <<>>), RunOf(Level2Start, <<>>), RunOf(FightStart, FightClose),
      RunOf(FightStart, FightLate), RunOf(FightStart, FightMatchPlayer),
      RunOf(FightStart, FightDialogue), RunOf(FightStart, FightMatchAI),
      RunOf(FightStart, FightTrade), RunOf(FightStart, FightTradeBlock),
      RunOf(FightStart, FightDeadStrike), RunOf(FightStart, FightDoubleKnockout),
      RunOf(Level2Start, Level2Close), RunOf(Level2Start, Level2Match),
      RunOf(Level2Start, Level2Kill), RunOf(Level2Start, Level2Corner),
      RunOf(Level2Start, Level2Edge), RunOf(Level2Start, Level2KillReset) }

Init ==
    \E u \in Runs :
        /\ mode = u.start.mode /\ p1 = u.start.p1 /\ p2 = u.start.p2 /\ sc = u.start.sc
        /\ eng = u.start.eng /\ ih = u.start.ih /\ ai = u.start.ai /\ obs = u.start.obs
        /\ bud = [plan |-> u.plan, ticks |-> u.ticks, events |-> u.events,
                  confirm |-> u.confirm]

Next == FightTick \/ Level2Tick

Spec == Init /\ [][Next]_vars

----------------------------------------------------------------------------
(* One combatant on its own: any sequence of the operations the scenes      *)
(* apply to a combatant, each with any of its inputs.                        *)
(* p1 is the combatant, obs the last operation with its inputs and the       *)
(* combatant before it, bud.ticks the number of operations left.             *)

\* dt of an update, in ms: a paused frame, a frame, a long frame
UnitTimes == {0, 34, 500}

\* the intents of an update
UnitIntents == KeySets \cup {[NoInput EXCEPT !.block = TRUE, !.attack = TRUE]}

\* damage of a FightScene strike: normal, special, god mode
UnitDamages == {FightDamage, FightSpecialDamage, GodModeDamage}

\* distance of the other fighter, in pixels
UnitDistance == 40

\* the operations left to a combatant
MaxOps == 3

IsNinja(c) == c.kind = "YellowNinja"

UnitObs(op, dt, in, amount, attacker_x) ==
    [op |-> op, before |-> p1, dt |-> dt, in |-> in, amount |-> amount,
     attacker_x |-> attacker_x, ret |-> FALSE, none |-> TRUE]

UnitStep(op, dt, in, amount, attacker_x, c) ==
    /\ bud.ticks > 0
    /\ p1' = c
    /\ obs' = UnitObs(op, dt, in, amount, attacker_x)
    /\ bud' = [bud EXCEPT !.ticks = @ - 1]
    /\ UNCHANGED <<mode, p2, sc, eng, ih, ai>>

\* the player of Level2Scene as the ninja sees it
UnitOpponent(side, attacking) ==
    [Level2Start.p1 EXCEPT !.x = p1.x + side * UnitDistance * U, !.is_attacking = attacking]

\* Character.update of a samurai, YellowNinja.update of the ninja
UnitUpdate ==
    \E dt \in UnitTimes :
        \/ /\ ~IsNinja(p1)
           /\ \E in \in UnitIntents : UnitStep("update", dt, in, 0, 0, CharUpdate(p1, dt, in))
        \/ /\ IsNinja(p1)
           /\ \E side \in {-1, 1}, attacking \in BOOLEAN, lucky \in BOOLEAN :
                 UnitStep("update", dt, NoInput, 0, 0,
                          NinjaUpdate(p1, dt, Level2Gravity, (GroundY + SpawnOffsetEnemy) * U,
                                      UnitOpponent(side, attacking), ArenaLeft, ArenaRight,
                                      lucky))

\* Character.attack
UnitAttack == UnitStep("attack", 0, NoInput, 0, 0, Attack(p1))

\* Character.special_attack, with the value it returns
UnitSpecialAttack ==
    /\ bud.ticks > 0
    /\ p1' = SpecialAttack(p1)
    /\ obs' = [UnitObs("special_attack", 0, NoInput, 0, 0)
                   EXCEPT !.ret = SpecialAttackReturn(p1).value,
                          !.none = SpecialAttackReturn(p1).none]
    /\ bud' = [bud EXCEPT !.ticks = @ - 1]
    /\ UNCHANGED <<mode, p2, sc, eng, ih, ai>>

\* Character.start_stun
UnitStartStun == UnitStep("start_stun", 0, NoInput, 0, 0, StartStun(p1))

\* the outcome r of a take_damage call: the combatant and the value returned
UnitTaken(amount, attacker_x, r) ==
    /\ p1' = r.c
    /\ obs' = [UnitObs("take_damage", 0, NoInput, amount, attacker_x) EXCEPT !.ret = r.ret, !.none = FALSE]

\* Character.take_damage, as FightScene._handle_combat calls it on a samurai
UnitTakeDamage ==
    /\ ~IsNinja(p1) /\ bud.ticks > 0
    /\ \E amount \in UnitDamages, side \in {-1, 1} :
          UnitTaken(amount, p1.x + side * UnitDistance * U,
                    TakeDamage(p1, amount, p1.x + side * UnitDistance * U))
    /\ bud' = [bud EXCEPT !.ticks = @ - 1]
    /\ UNCHANGED <<mode, p2, sc, eng, ih, ai>>

\* a strike of Level2Scene._check_collisions on the combatant: blocked or landed
UnitStrike ==
    /\ p1.kind # "Samurai2" /\ ~p1.is_dead
    /\ \E side \in {-1, 1}, god \in BOOLEAN :
          LET att == [Level2Start.p1 EXCEPT !.x = p1.x + side * UnitDistance * U,
                                            !.facing_right = (side = -1),
                                            !.is_attacking = TRUE, !.can_hit = TRUE,
                                            !.god_mode = god]
              w == [p1 |-> att, p2 |-> p1, obs |-> NoObs]
          IN UnitStep("strike", 0, NoInput, IF god THEN GodModeDamage ELSE Level2Damage,
                      att.x, Level2Strike(w, "p1", "p2", Abs(att.x - p1.x)).p2)

\* the reset of a fighter by FightScene._start_new_round or
\* Level2Scene._start_next_round
UnitReset ==
    \/ /\ ~IsNinja(p1)
       /\ UnitStep("reset", 0, NoInput, 0, 0, RoundReset(p1, IF p1.kind = "Samurai1" THEN 0 ELSE 600 * U))
    \/ /\ IsNinja(p1)
       /\ UnitStep("reset", 0, NoInput, 0, 0,
                   Level2Reset(p1, 600 * U, (GroundY + SpawnOffsetEnemy) * U))

InitUnit ==
    /\ mode = "unit"
    /\ p1 \in {FightStart.p1, FightStart.p2, Level2Start.p2}
    /\ p2 = FightStart.p2 /\ sc = FightSceneInit /\ eng = FightStart.eng
    /\ ih = InputHandlerInit /\ ai = AIControllerInit
    /\ obs = UnitObs("init", 0, NoInput, 0, 0)
    /\ bud = [plan |-> <<>>, ticks |-> MaxOps, events |-> 0, confirm |-> 0]

NextUnit ==
    \/ UnitUpdate
    \/ UnitAttack
    \/ UnitSpecialAttack
    \/ UnitStartStun
    \/ UnitTakeDamage
    \/ UnitStrike
    \/ UnitReset

SpecUnit == InitUnit /\ [][NextUnit]_vars

----------------------------------------------------------------------------
(* A samurai under a series of FightScene strikes, with no input: p1 is the   *)
(* samurai, obs.hits the number of take_damage calls so far, bud.events the   *)
(* calls left and bud.ticks the updates left to the living samurai.  The      *)
(* dead samurai is updated on every tick of the scene, so its tick is weakly  *)
(* fair.                                                                      *)

\* dt of an update, in ms: a frame, a long frame
HitsTimes == {34, 500}

\* take_damage calls of a series
MaxHits == 36

\* updates of the samurai while it lives
MaxHitTicks == 3

\* Character.take_damage(3, attacker_x) on a samurai that never blocks
HitsTakeDamage ==
    /\ bud.events > 0
    /\ \E side \in {-1, 1} :
          p1' = TakeDamage(p1, FightDamage, p1.x + side * UnitDistance * U).c
    /\ obs' = [op |-> "take_damage", hits |-> obs.hits + 1]
    /\ bud' = [bud EXCEPT !.events = @ - 1]
    /\ UNCHANGED <<mode, p2, sc, eng, ih, ai>>

\* Character.update(dt, no input) of the living samurai
HitsUpdate ==
    /\ ~p1.is_dead /\ bud.ticks > 0
    /\ \E dt \in HitsTimes : p1' = CharUpdate(p1, dt, NoInput)
    /\ obs' = [obs EXCEPT !.op = "update"]
    /\ bud' = [bud EXCEPT !.ticks = @ - 1]
    /\ UNCHANGED <<mode, p2, sc, eng, ih, ai>>

\* Character.update(dt, no input) of the dead samurai: a tick of the scene
HitsTick ==
    /\ p1.is_dead
    /\ \E dt \in HitsTimes : p1' = CharUpdate(p1, dt, NoInput)
    /\ obs' = [obs EXCEPT !.op = "tick"]
    /\ UNCHANGED <<mode, p2, sc, eng, ih, ai, bud>>

InitHits ==
    /\ mode = "hits"
    /\ p1 \in {FightStart.p1, FightStart.p2}
    /\ p2 = FightStart.p2 /\ sc = FightSceneInit /\ eng = FightStart.eng
    /\ ih = InputHandlerInit /\ ai = AIControllerInit
    /\ obs = [op |-> "init", hits |-> 0]
    /\ bud = [plan |-> <<>>, ticks |-> MaxHitTicks, events |-> MaxHits, confirm |-> 0]

NextHits == HitsTakeDamage \/ HitsUpdate \/ HitsTick

SpecHits == InitHits /\ [][NextHits]_vars /\ WF_vars(HitsTick)

----------------------------------------------------------------------------
(* One samurai whose sprites loaded, or failed to load: p1 is the samurai,   *)
(* obs the last operation, the attacks active before it and whether a hit    *)
(* landed during them, bud.ticks the updates left to the living samurai and  *)
(* bud.events the strikes left.  The scene updates the dead samurai on every *)
(* tick, so its tick is weakly fair.                                         *)

\* Character.load_sprites, which Samurai1/Samurai2.load_sprites fall back to when
\* loading raises: the one-frame idle clip, which the tail of load_sprites also
\* registers as "block"
FallbackClips == {"idle", "block"}

\* the size of a character whose sprites did not set it
FallbackWidth == 32
FallbackHeight == 48

\* a samurai as constructed when the first sprite sheet fails to load
FallbackSamurai(c) ==
    [c EXCEPT !.animations = FallbackClips, !.width = FallbackWidth, !.height = FallbackHeight]

\* the intents of an update: none, attack, special attack
SpriteIntents == {NoInput, Key("attack"), Key("special")}

\* the updates left to the living samurai: a special attack lasts 22 frames
MaxSpriteTicks == 24

\* the strikes left
MaxSpriteHits == 1

\* the damage of a strike of FightScene: normal, god mode
SpriteDamages == {FightDamage, GodModeDamage}

\* the operation, the attacks that were active before it, and hurt: a hit has
\* landed on the samurai during them
SpriteObs(op, hurt) ==
    [op |-> op, is_attacking |-> p1.is_attacking,
     is_special_attacking |-> p1.is_special_attacking,
     hurt |-> hurt /\ (p1.is_attacking \/ p1.is_special_attacking)]

\* Character.update of the living samurai on a frame of the scene
SpriteUpdate ==
    /\ ~p1.is_dead /\ bud.ticks > 0
    /\ \E dt \in FrameTimes, in \in SpriteIntents : p1' = CharUpdate(p1, dt, in)
    /\ obs' = SpriteObs("update", obs.hurt)
    /\ bud' = [bud EXCEPT !.ticks = @ - 1]
    /\ UNCHANGED <<mode, p2, sc, eng, ih, ai>>

\* the outcome r of a take_damage call: the samurai, and whether the hit landed
SpriteTaken(r) ==
    /\ p1' = r.c
    /\ obs' = SpriteObs("take_damage", obs.hurt \/ r.ret)

\* Character.take_damage with the damage of a strike
SpriteTakeDamage ==
    /\ bud.events > 0
    /\ \E side \in {-1, 1}, amount \in SpriteDamages :
          SpriteTaken(TakeDamage(p1, amount, p1.x + side * UnitDistance * U))
    /\ bud' = [bud EXCEPT !.events = @ - 1]
    /\ UNCHANGED <<mode, p2, sc, eng, ih, ai>>

\* Character.update of the dead samurai
SpriteTick ==
    /\ p1.is_dead
    /\ \E dt \in FrameTimes : p1' = CharUpdate(p1, dt, NoInput)
    /\ obs' = SpriteObs("tick", obs.hurt)
    /\ UNCHANGED <<mode, p2, sc, eng, ih, ai, bud>>

InitSprites ==
    /\ mode = "sprites"
    /\ p1 \in {FightStart.p1, FightStart.p2,
               FallbackSamurai(FightStart.p1), FallbackSamurai(FightStart.p2)}
    /\ p2 = FightStart.p2 /\ sc = FightSceneInit /\ eng = FightStart.eng
    /\ ih = InputHandlerInit /\ ai = AIControllerInit
    /\ obs = SpriteObs("init", FALSE)
    /\ bud = [plan |-> <<>>, ticks |-> MaxSpriteTicks, events |-> MaxSpriteHits, confirm |-> 0]

NextSprites == SpriteUpdate \/ SpriteTakeDamage \/ SpriteTick

SpecSprites == InitSprites /\ [][NextSprites]_vars /\ WF_vars(SpriteTick)

----------------------------------------------------------------------------
(* The special-attack cooldown of one combatant: p1 is the combatant, obs    *)
(* the last operation, whether it started a special attack, the cooldown the *)
(* start was tested against, and the tick time accumulated since the start   *)
(* before (gap) and since the last start (since; -1: none yet).  bud.ticks   *)
(* is the number of operations left to a samurai, bud.events the number of   *)
(* updates left to the ninja.                                                *)

\* dt of an update of a samurai, in ms: a frame, a long frame, a stall of the
\* window
CooldownTimes == {34, 500, 5000}

\* dt of an update of the ninja, in ms: a frame, a long frame
NinjaTimes == {34, 500}

\* the updates left to the ninja
MaxNinjaOps == 18

\* the intents of an update: none, special attack
CooldownIntents == {NoInput, Key("special")}

\* the operations left
MaxCooldownOps == 5

\* the tick time after which the accumulation stops
MaxSince == 12000

\* tick time accumulated since the last start, if there was one
Accumulate(since, dt) == IF since < 0 THEN since ELSE Min(MaxSince, since + dt)

\* the operation that led from b to a started a special attack
SpecialStartedBy(b, a) ==
    \/ a.current_special_attack_id # b.current_special_attack_id
    \/ ~b.is_special_attacking /\ a.is_special_attacking

\* an operation of dt tick time that leads to c; cooldown is the value the start
\* is tested against, and early says that the start comes before the tick time
\* of the operation is counted (_handle_input) and not after it (_update_ai)
CooldownStep(op, dt, c, cooldown, early) ==
    /\ p1' = c
    /\ obs' = [op |-> op, started |-> SpecialStartedBy(p1, c), cooldown |-> cooldown,
               gap |-> IF early THEN obs.since ELSE Accumulate(obs.since, dt),
               since |-> IF SpecialStartedBy(p1, c)
                         THEN (IF early THEN dt ELSE 0)
                         ELSE Accumulate(obs.since, dt)]
    /\ bud' = IF IsNinja(p1) THEN [bud EXCEPT !.events = @ - 1]
              ELSE [bud EXCEPT !.ticks = @ - 1]
    /\ UNCHANGED <<mode, p2, sc, eng, ih, ai>>

\* Character.update of a samurai
CooldownUpdate ==
    /\ ~IsNinja(p1) /\ bud.ticks > 0
    /\ \E dt \in CooldownTimes, in \in CooldownIntents :
          CooldownStep("update", dt, CharUpdate(p1, dt, in), p1.special_attack_cooldown, TRUE)

\* YellowNinja.update, the player within reach
CooldownNinjaUpdate ==
    /\ IsNinja(p1) /\ bud.events > 0
    /\ \E dt \in NinjaTimes, lucky \in BOOLEAN :
          CooldownStep("update", dt,
                       NinjaUpdate(p1, dt, Level2Gravity, (GroundY + SpawnOffsetEnemy) * U,
                                   UnitOpponent(1, FALSE), ArenaLeft, ArenaRight, lucky),
                       UpdateCombat(p1, dt).special_attack_cooldown, FALSE)

\* Character.special_attack
CooldownSpecialAttack ==
    /\ ~IsNinja(p1) /\ bud.ticks > 0
    /\ CooldownStep("special_attack", 0, SpecialAttack(p1), p1.special_attack_cooldown, TRUE)

\* the reset of a samurai by FightScene._start_new_round
CooldownReset ==
    /\ ~IsNinja(p1) /\ bud.ticks > 0
    /\ CooldownStep("reset", 0, RoundReset(p1, IF p1.kind = "Samurai1" THEN 0 ELSE 600 * U),
                    p1.special_attack_cooldown, TRUE)

InitCooldown ==
    /\ mode = "cooldown"
    /\ p1 \in {FightStart.p1, FightStart.p2, Level2Start.p2}
    /\ p2 = FightStart.p2 /\ sc = FightSceneInit /\ eng = FightStart.eng
    /\ ih = InputHandlerInit /\ ai = AIControllerInit
    /\ obs = [op |-> "init", started |-> FALSE, cooldown |-> 0, gap |-> -1, since |-> -1]
    /\ bud = [plan |-> <<>>, ticks |-> MaxCooldownOps, events |-> MaxNinjaOps, confirm |-> 0]

NextCooldown ==
    \/ CooldownUpdate
    \/ CooldownNinjaUpdate
    \/ CooldownSpecialAttack
    \/ CooldownReset

SpecCooldown == InitCooldown /\ [][NextCooldown]_vars

----------------------------------------------------------------------------
(* SpecStamina: the stamina of one combatant over its updates: a samurai     *)
(* under the block, jump and attack intents, the ninja beside or away from   *)
(* the player, and the player's strikes on the ninja's guard. obs holds the  *)
(* combatant before the step, the tick time and the intent.                  *)

StaminaTimes == {0, 34, 500}
StaminaNinjaTimes == {34, 500}

\* the intents of an update: block and jump, alone, together and with an attack
StaminaIntents ==
    {NoInput, Key("block"), Key("up"),
     [NoInput EXCEPT !.block = TRUE, !.up = TRUE],
     [NoInput EXCEPT !.block = TRUE, !.attack = TRUE]}

\* distances of the player from the ninja, in pixels: in reach, and in the
\* range where the ninja approaches or idles
StaminaDistances == {UnitDistance, 120}

\* number of steps of a run
MaxStaminaOps == 5

StaminaStep(op, dt, in, c) ==
    /\ bud.ticks > 0
    /\ p1' = c
    /\ obs' = [op |-> op, before |-> p1, dt |-> dt, in |-> in]
    /\ bud' = [bud EXCEPT !.ticks = @ - 1]
    /\ UNCHANGED <<mode, p2, sc, eng, ih, ai>>

\* Character.update of a samurai
StaminaUpdate ==
    /\ ~IsNinja(p1)
    /\ \E dt \in StaminaTimes, in \in StaminaIntents :
          StaminaStep("update", dt, in, CharUpdate(p1, dt, in))

\* YellowNinja.update
StaminaNinjaUpdate ==
    /\ IsNinja(p1)
    /\ \E dt \in StaminaNinjaTimes, distance \in StaminaDistances,
          attacking \in BOOLEAN, lucky \in BOOLEAN :
          StaminaStep("update", dt, NoInput,
                      NinjaUpdate(p1, dt, Level2Gravity, (GroundY + SpawnOffsetEnemy) * U,
                                  [Level2Start.p1 EXCEPT !.x = p1.x + distance * U,
                                                         !.is_attacking = attacking],
                                  ArenaLeft, ArenaRight, lucky))

\* Level2Scene._check_collisions: a strike of the player on the guard of the ninja
StaminaStrike ==
    /\ IsNinja(p1) /\ p1.is_blocking /\ ~p1.is_dead
    /\ LET att == [Level2Start.p1 EXCEPT !.x = p1.x + UnitDistance * U,
                                         !.facing_right = FALSE,
                                         !.is_attacking = TRUE, !.can_hit = TRUE]
           w == [p1 |-> att, p2 |-> p1, obs |-> NoObs]
       IN StaminaStep("strike", 0, NoInput, Level2Strike(w, "p1", "p2", Abs(att.x - p1.x)).p2)

InitStamina ==
    /\ mode = "stamina"
    /\ p1 \in {FightStart.p1, FightStart.p2, Level2Start.p2}
    /\ p2 = FightStart.p2 /\ sc = FightSceneInit /\ eng = FightStart.eng
    /\ ih = InputHandlerInit /\ ai = AIControllerInit
    /\ obs = [op |-> "init", before |-> p1, dt |-> 0, in |-> NoInput]
    /\ bud = [plan |-> <<>>, ticks |-> MaxStaminaOps, events |-> 0, confirm |-> 0]

NextStamina ==
    \/ StaminaUpdate
    \/ StaminaNinjaUpdate
    \/ StaminaStrike

SpecStamina == InitStamina /\ [][NextStamina]_vars

----------------------------------------------------------------------------
(* SpecAI: the two AI policies on their own. p2 is the AI's combatant: the   *)
(* Samurai2 that AIController (ai) drives as FightScene does, or the         *)
(* YellowNinja with its own policy; p1 is the player as the policy sees it.  *)
(* obs holds, for the last step: whether the policy decided in it, whether   *)
(* the combatant was stunned when the policy ran, the tick time accumulated  *)
(* from the last decision to this step (gap) and since the last decision     *)
(* (since), and the action before the step.                                  *)

\* dt of an update, in ms
AITimes == {34, 50, 100, 500}

\* the player as the policy finds it: its distance from the AI's combatant, in
\* pixels, and whether it is attacking
AIPlayers ==
    {[distance |-> 40, attacking |-> FALSE], [distance |-> 40, attacking |-> TRUE],
     [distance |-> 100, attacking |-> FALSE]}

\* the draws of a step of AIController
AIDraws ==
    {NoLuck, [NoLuck EXCEPT !.aggro = TRUE], [NoLuck EXCEPT !.approach = TRUE],
     [NoLuck EXCEPT !.jump = TRUE], [NoLuck EXCEPT !.block = TRUE, !.chance = TRUE],
     [NoLuck EXCEPT !.flip = "left"]}

\* number of steps of a run
MaxAIOps == 4

\* the player to the left of the AI's combatant
AIOpponent(o) ==
    [p1 EXCEPT !.x = p2.x - o.distance * U, !.is_attacking = o.attacking]

AIStep(op, a, c, pl, decided, stunned, dt) ==
    /\ bud.ticks > 0
    /\ ai' = a /\ p2' = c /\ p1' = pl
    /\ obs' = [op |-> op, decided |-> decided, stunned |-> stunned,
               gap |-> obs.since + dt,
               since |-> IF decided THEN 0 ELSE obs.since + dt,
               action |-> IF IsNinja(p2) THEN p2.ai_current_action ELSE ai.current_action]
    /\ bud' = [bud EXCEPT !.ticks = @ - 1]
    /\ UNCHANGED <<mode, sc, eng, ih>>

\* a frame of the AI side of FightScene: AIController.update, then Character.update
\* of its combatant with the intent returned
AIControllerStep ==
    /\ ~IsNinja(p2)
    /\ \E dt \in AITimes, r \in AIDraws, o \in AIPlayers :
          AIStep("ai", AIUpdate(ai, dt, p2, AIOpponent(o), r),
                 CharUpdate(p2, dt, AIUpdate(ai, dt, p2, AIOpponent(o), r).input),
                 AIOpponent(o),
                 AIUpdate(ai, dt, p2, AIOpponent(o), r).last_decision_time = 0,
                 p2.is_stunned, dt)

\* YellowNinja.update, with the ninja's policy in it
AINinjaStep ==
    /\ IsNinja(p2) /\ ~p2.is_dead
    /\ \E dt \in AITimes, lucky \in BOOLEAN, o \in AIPlayers :
          AIStep("ai", ai,
                 NinjaUpdate(p2, dt, Level2Gravity, (GroundY + SpawnOffsetEnemy) * U,
                             AIOpponent(o), ArenaLeft, ArenaRight, lucky),
                 AIOpponent(o),
                 NinjaUpdate(p2, dt, Level2Gravity, (GroundY + SpawnOffsetEnemy) * U,
                             AIOpponent(o), ArenaLeft, ArenaRight, lucky).ai_timer = 0,
                 UpdateCombat(p2, dt).is_stunned, dt)

\* Character.start_stun of the AI's combatant
AIStun ==
    /\ ~p2.is_stunned
    /\ bud.ticks > 0
    /\ ai' = ai /\ p2' = StartStun(p2) /\ p1' = p1
    /\ obs' = [obs EXCEPT !.op = "start_stun", !.decided = FALSE]
    /\ bud' = [bud EXCEPT !.ticks = @ - 1]
    /\ UNCHANGED <<mode, sc, eng, ih>>

InitAI ==
    /\ mode = "ai"
    /\ \/ p1 = FightStart.p1 /\ p2 = FightStart.p2
       \/ p1 = Level2Start.p1 /\ p2 = Level2Start.p2
    /\ sc = FightSceneInit /\ eng = FightStart.eng
    /\ ih = InputHandlerInit /\ ai = AIControllerInit
    /\ obs = [op |-> "init", decided |-> FALSE, stunned |-> FALSE, gap |-> 0, since |-> 0,
              action |-> "idle"]
    /\ bud = [plan |-> <<>>, ticks |-> MaxAIOps, events |-> 0, confirm |-> 0]

NextAI ==
    \/ AIControllerStep
    \/ AINinjaStep
    \/ AIStun

SpecAI == InitAI /\ [][NextAI]_vars

-----------------------------------------------------------------------------
(* The input handler on its own: key changes between updates and updates   *)
(* with ticks of any size.  Beside the handler the observation keeps       *)
(*   down   the block key as the previous update saw it                    *)
(*   hold   the tick time over which updates have seen the key held: the   *)
(*          dt of every update that saw it down after the first one        *)
(*   since  the tick time since the last release after a hold of at most   *)
(*          0.3 s, the dt of the update that saw the release included      *)
(*          (ParryWindowDuration when there was none, or it is older)      *)
(*   released, dt, was_down, held, open: of the last update, whether it    *)
(*          saw such a release, its dt, and down, hold and is_parrying     *)
(*          before it                                                      *)

InputTimes == {0, 34, 100, 300}
InputKeys == {"block", "left"}
MaxInputOps == 6

\* keys change between two updates (pygame.key.get_pressed)
InputKey ==
    /\ bud.ticks > 0
    /\ \E k \in InputKeys : ih' = [ih EXCEPT !.keys[k] = ~@]
    /\ obs' = [obs EXCEPT !.op = "key"]
    /\ UNCHANGED <<mode, p1, p2, sc, eng, ai, bud>>

InputUpdate ==
    /\ bud.ticks > 0
    /\ \E dt \in InputTimes :
          LET released == ~ih.keys.block /\ obs.down /\ obs.hold <= ParryWindowDuration
          IN /\ ih' = InputHandlerUpdate(ih, dt)
             /\ obs' = [op |-> "update", down |-> ih.keys.block,
                        hold |-> IF ih.keys.block /\ obs.down THEN obs.hold + dt ELSE 0,
                        since |-> IF released THEN dt
                                  ELSE Min(obs.since + dt, ParryWindowDuration),
                        released |-> released, dt |-> dt,
                        was_down |-> obs.down, held |-> obs.hold,
                        open |-> ih.is_parrying]
    /\ bud' = [bud EXCEPT !.ticks = @ - 1]
    /\ UNCHANGED <<mode, p1, p2, sc, eng, ai>>

InitInput ==
    /\ mode = "input"
    /\ p1 = FightStart.p1 /\ p2 = FightStart.p2
    /\ sc = FightSceneInit /\ eng = FightStart.eng
    /\ ih = InputHandlerInit /\ ai = AIControllerInit
    /\ obs = [op |-> "init", down |-> FALSE, hold |-> 0, since |-> ParryWindowDuration,
              released |-> FALSE, dt |-> 0, was_down |-> FALSE, held |-> 0,
              open |-> FALSE]
    /\ bud = [plan |-> <<>>, ticks |-> MaxInputOps, events |-> 0, confirm |-> 0]

NextInput ==
    \/ InputKey
    \/ InputUpdate

SpecInput == InitInput /\ [][NextInput]_vars

----------------------------------------------------------------------------
(* Properties *)

\* the hit latch of the attacker of a strike
StrikeLatch(k) ==
    IF k = "p1_attack" THEN p1.can_hit
    ELSE IF k = "p1_special" THEN p1.can_special_hit
    ELSE IF k = "p2_attack" THEN p2.can_hit
    ELSE p2.can_special_hit

\* the defender of a strike, and its stamina before the combat resolution of the frame
StrikeDefender(k) == IF k \in {"p1_attack", "p1_special"} THEN p2 ELSE p1
StaminaBefore(k) ==
    IF k \in {"p1_attack", "p1_special"} THEN obs.stamina_before.p2 ELSE obs.stamina_before.p1

\* C1: every attack instance (one value of current_attack_id or
\* current_special_attack_id) applies damage to the opponent at most once, however
\* many frames its hitbox overlaps the opponent, in FightScene and in Level2Scene
C1_OneDamagePerAttack == \A k \in Strikes : obs.hits[k].n <= 1

\* C2: in FightScene a frame raises player_wins + ai_wins by at most 1, also when
\* the death animation finishes on the frame the round timer reaches 0
C2_RoundEndsOnce ==
    [][(mode = "fight" /\ mode' = "fight")
       => sc'.player_wins + sc'.ai_wins <= sc.player_wins + sc.ai_wins + 1]_vars

\* C3: match_over is never true while both win counters are below 3, and once a
\* counter has reached 3 every later frame of the scene leaves current_round and
\* both counters unchanged, in FightScene and in Level2Scene
C3_MatchEndsAtThreshold ==
    /\ [](sc.match_over => (sc.player_wins >= WinsNeeded \/ sc.ai_wins >= WinsNeeded))
    /\ [][((sc.player_wins >= WinsNeeded \/ sc.ai_wins >= WinsNeeded) /\ mode' = mode)
          => /\ sc'.current_round = sc.current_round
             /\ sc'.player_wins = sc.player_wins
             /\ sc'.ai_wins = sc.ai_wins]_vars

\* a frame after the one that ended the match: the third win is on the board, the
\* match is over and this frame ended no round
C3_Witness ==
    /\ mode = "fight" /\ obs.op = "frame" /\ obs.ends = 0
    /\ sc.match_over /\ sc.ai_wins >= WinsNeeded

\* C4: after any sequence of updates with dt >= 0, block starts, jumps, blocked
\* hits, landed hits and round resets, 0 <= health <= max_health and
\* 0 <= stamina <= max_stamina
C4_HealthStaminaBounds ==
    /\ 0 <= p1.health /\ p1.health <= p1.max_health
    /\ 0 <= p1.stamina /\ p1.stamina <= p1.max_stamina

\* a blocked Level2Scene hit on a combatant with less stamina than the block costs
C4_Witness ==
    /\ obs.op = "strike" /\ obs.before.is_blocking
    /\ obs.before.stamina > 0 /\ obs.before.stamina < Level2BlockCost * SU
    /\ p1.stamina = 0

\* the combatant of a take_damage call faces the attacker
FacesAttacker(c, attacker_x) ==
    \/ (c.facing_right /\ attacker_x > c.x)
    \/ (~c.facing_right /\ attacker_x < c.x)

\* C5: take_damage(amount, attacker_x) on a living combatant leaves its health
\* unchanged if and only if it is blocking and faces the attacker; otherwise its
\* health decreases by min(amount, health)
C5_TakeDamage ==
    (obs.op = "take_damage" /\ ~obs.before.is_dead)
    => LET b == obs.before
           blocked == b.is_blocking /\ FacesAttacker(b, obs.attacker_x)
       IN /\ (p1.health = b.health) <=> blocked
          /\ ~blocked => p1.health = b.health - Min(obs.amount, b.health)

\* a one-shot strike on a living combatant that blocks and faces the attacker
C5_Witness ==
    /\ obs.op = "take_damage" /\ ~obs.before.is_dead /\ obs.amount = GodModeDamage
    /\ obs.before.is_blocking /\ FacesAttacker(obs.before, obs.attacker_x)
    /\ p1.health = obs.before.health /\ ~p1.is_dead

\* C6: when the combat resolution of a frame resolves an overlapping attack, as a
\* landed hit or as an effective block, the attacker's hit latch of that attack
\* (can_hit or can_special_hit) is false afterwards
C6_LatchCleared ==
    \A k \in Strikes : obs.struck[k] \in {"hit", "blocked"} => ~StrikeLatch(k)

\* what an effective block costs the defender: 50 stamina, clamped at 0, and a
\* stun when the stamina reaches 0
BlockCostPaid(k) ==
    obs.struck[k] = "blocked"
    => /\ StrikeDefender(k).stamina = Max(0, StaminaBefore(k) - Level2BlockCost * SU)
       /\ StrikeDefender(k).stamina = 0 => StrikeDefender(k).is_stunned

\* C7: an effectively blocked attack costs the defender 50 stamina (clamped at 0) in
\* that frame and stuns it when the stamina reaches 0, in FightScene and in
\* Level2Scene
C7_BlockCost == \A k \in Strikes : BlockCostPaid(k)

\* C7 (amended): in Level2Scene an effectively blocked attack costs the defender 50
\* stamina (clamped at 0) in that frame and stuns it when the stamina reaches 0
C7_Level2BlockCost == mode = "level2" => \A k \in Strikes : BlockCostPaid(k)

\* the ninja blocks the player's attack with its last 50 stamina and is stunned
C7_Witness ==
    /\ mode = "level2" /\ obs.struck["p1_attack"] = "blocked"
    /\ obs.stamina_before.p2 = Level2BlockCost * SU
    /\ p2.stamina = 0 /\ p2.is_stunned

\* the state of a combatant a frozen frame has to keep
Core(c) ==
    [health |-> c.health, stamina |-> c.stamina, x |-> c.x, y |-> c.y,
     velocity_x |-> c.velocity_x, velocity_y |-> c.velocity_y,
     facing_right |-> c.facing_right, on_ground |-> c.on_ground,
     is_attacking |-> c.is_attacking, is_special_attacking |-> c.is_special_attacking,
     is_blocking |-> c.is_blocking, is_stunned |-> c.is_stunned, is_hit |-> c.is_hit,
     is_dead |-> c.is_dead, can_hit |-> c.can_hit, can_special_hit |-> c.can_special_hit,
     current_attack_id |-> c.current_attack_id,
     current_special_attack_id |-> c.current_special_attack_id,
     attack_duration |-> c.attack_duration,
     special_attack_duration |-> c.special_attack_duration,
     attack_cooldown |-> c.attack_cooldown,
     special_attack_cooldown |-> c.special_attack_cooldown,
     stun_duration |-> c.stun_duration, hit_duration |-> c.hit_duration]

\* the round and match state a frozen frame has to keep
RoundState(s) ==
    [player_wins |-> s.player_wins, ai_wins |-> s.ai_wins,
     current_round |-> s.current_round, round_time |-> s.round_time,
     round_over |-> s.round_over, round_end_timer |-> s.round_end_timer,
     match_over |-> s.match_over]

\* C8: a frame of FightScene that GameEngine.update freezes (pause or dialogue:
\* FightScene.update(0, ...)) leaves the combatants' health, stamina, position,
\* velocity, facing, combat flags, attack ids and timers and the round and match
\* state unchanged, whatever the intents
C8_FrozenFrameNoOp ==
    [][(mode = "fight" /\ mode' = "fight" /\ obs'.op = "frame" /\ obs'.dt = 0)
       => /\ Core(p1') = Core(p1)
          /\ Core(p2') = Core(p2)
          /\ RoundState(sc') = RoundState(sc)]_vars

\* what a frame may do with a combatant that is stunned before and after it
StunSuppresses(c, d) ==
    (c.is_stunned /\ d.is_stunned)
    => /\ d.current_attack_id = c.current_attack_id
       /\ d.current_special_attack_id = c.current_special_attack_id
       /\ ~d.is_blocking
       /\ c.on_ground => d.on_ground
       /\ d.velocity_x = 0

\* C9: while is_stunned is true a combatant of any type starts no attack and no
\* special attack, is not blocking, does not jump and has horizontal velocity 0 at
\* the end of each frame, whatever the intent or the AI action
C9_StunSuppressesActions ==
    [][(mode' = mode) => StunSuppresses(p1, p1') /\ StunSuppresses(p2, p2')]_vars

\* an update starts a block that uses up the stamina
BlockStartDepletes(c, in) ==
    /\ ~c.is_dead /\ ~c.is_stunned
    /\ in.block /\ c.stamina > 0 /\ ~c.is_attacking /\ ~c.is_blocking
    /\ c.stamina - StaminaPerBlock * SU <= 0

\* C10: if the block-start edge of a Character.update with dt < 2.5s brings the
\* stamina to 0, then at the end of that update is_stunned is true and is_blocking
\* is false
C10_DepletedBlockStuns ==
    (~IsNinja(p1) /\ obs.op = "update" /\ obs.dt < StunTime
     /\ BlockStartDepletes(obs.before, obs.in))
    => p1.is_stunned /\ ~p1.is_blocking

\* a second block start with 50 stamina left, in an update that takes time
C10_Witness ==
    /\ ~IsNinja(p1) /\ obs.op = "update" /\ obs.dt > 0
    /\ BlockStartDepletes(obs.before, obs.in)
    /\ p1.stamina = 0 /\ p1.is_stunned /\ ~p1.is_blocking

\* a combatant as a round has to start it: full health and stamina, no combat flag
Fresh(c) ==
    /\ c.health = c.max_health /\ c.stamina = c.max_stamina
    /\ ~c.is_dead /\ ~c.is_attacking /\ ~c.is_special_attacking
    /\ ~c.is_blocking /\ ~c.is_stunned /\ ~c.is_hit

\* the positions a new round of the scene assigns
AtSpawn(m, a, b) ==
    /\ a.x = 0 /\ b.x = 600 * U
    /\ a.y = (IF m = "fight" THEN GroundY ELSE GroundY + SpawnOffsetPlayer) * U
    /\ b.y = (IF m = "fight" THEN GroundY ELSE GroundY + SpawnOffsetEnemy) * U

\* a frame of the scene starts a new round
NewRound == mode' = mode /\ sc'.current_round = sc.current_round + 1

\* C11: on the frame that starts a new round both combatants have full health and
\* stamina, none of is_dead, is_attacking, is_special_attacking, is_blocking,
\* is_stunned, is_hit set, and stand at their spawn positions, in FightScene and in
\* Level2Scene
C11_RoundStartsFresh ==
    [][NewRound => Fresh(p1') /\ Fresh(p2') /\ AtSpawn(mode', p1', p2')]_vars

\* a frame on which the round timer reaches 0 and ends the round
TimerExpires ==
    /\ mode' = mode /\ ~sc.round_over /\ sc'.round_over
    /\ sc.round_time > 0 /\ sc'.round_time = 0

\* C12: when the round timer reaches 0 the side with strictly higher health is the
\* round winner and only its win counter increments; with equal health the round is
\* a Draw and neither counter changes
C12_TimerWinnerByHealth ==
    [][TimerExpires
       => /\ p1'.health > p2'.health
             => /\ sc'.round_winner = "Player"
                /\ sc'.player_wins = sc.player_wins + 1 /\ sc'.ai_wins = sc.ai_wins
          /\ p2'.health > p1'.health
             => /\ sc'.round_winner # "Player" /\ sc'.round_winner # "Draw"
                /\ sc'.ai_wins = sc.ai_wins + 1 /\ sc'.player_wins = sc.player_wins
          /\ p1'.health = p2'.health
             => /\ sc'.round_winner = "Draw"
                /\ sc'.player_wins = sc.player_wins /\ sc'.ai_wins = sc.ai_wins]_vars

\* C13: from health 100, after k unblocked 3-damage hits the health is
\* max(0, 100 - 3k) and the samurai is dead exactly from the 34th hit on; once
\* it is dead, updates with dt > 0 and no input eventually finish its death
\* animation.
C13_DeathAfter34Hits ==
    /\ [](/\ p1.health = Max(0, MaxHealth - FightDamage * obs.hits)
          /\ p1.is_dead <=> obs.hits >= 34)
    /\ (p1.is_dead ~> IsDeathAnimationFinished(p1))

\* the 34th hit has killed the samurai and its death animation has finished
C13_Witness == obs.hits = 34 /\ p1.health = 0 /\ IsDeathAnimationFinished(p1)

\* the outcome the claim asks of strike k: the defender took its damage or
\* blocked it effectively, and the attacker's latch is cleared
Resolved(k) == obs.struck[k] \in {"hit", "blocked"} /\ ~StrikeLatch(k)

\* C14: when, as the combat resolution of a FightScene frame begins, a strike of
\* each combatant has its latch enabled and its hitbox on the other combatant,
\* both strikes land (or are effectively blocked) in that frame and both latches
\* are cleared, also when the first strike resolved kills its target
C14_SimultaneousHits ==
    \A a \in {"p1_attack", "p1_special"}, b \in {"p2_attack", "p2_special"} :
        obs.armed[a] /\ obs.armed[b] => Resolved(a) /\ Resolved(b)

\* the same for strikes that no defender blocks: both land and clear their latch
SimultaneousUnblocked ==
    \A a \in {"p1_attack", "p1_special"}, b \in {"p2_attack", "p2_special"} :
        obs.armed[a] /\ obs.armed[b] /\ "blocked" \notin {obs.struck[a], obs.struck[b]}
        => Resolved(a) /\ Resolved(b)

\* both normal attacks reached their target in one frame, and the first killed
SimultaneousKill ==
    /\ obs.armed["p1_attack"] /\ obs.armed["p2_attack"]
    /\ obs.struck["p1_attack"] = "hit" /\ obs.struck["p2_attack"] = "hit"
    /\ p2.is_dead /\ ~p1.can_hit /\ ~p2.can_hit

\* a frame ends the round by knockout: the round timer has not run out
KnockoutEnds ==
    /\ mode' = mode /\ ~sc.round_over /\ sc'.round_over /\ sc'.round_time > 0

\* C15: a round is ended by knockout only on a frame on which the death animation
\* of the dead combatant has finished, in FightScene and in Level2Scene
C15_KnockoutAfterDeathAnimation ==
    [][KnockoutEnds
       => /\ sc'.ai_wins > sc.ai_wins => IsDeathAnimationFinished(p1')
          /\ sc'.player_wins > sc.player_wins => IsDeathAnimationFinished(p2')]_vars

\* a frame of the delay after a round end: the scene is updated while its round
\* is over and its match is not
DelayFrame ==
    /\ mode' = mode /\ sc.round_over /\ ~sc.match_over /\ ~sc.showing_dialogue
    /\ obs'.op = "frame"

\* C16: after a round ends the next round starts only once the scene has been
\* updated with 2.5 s or more, and every frame of that delay still updates both
\* combatants, in FightScene and in Level2Scene
C16_RoundEndDelay ==
    [][/\ NewRound => obs'.waited >= RoundEndDuration
       /\ DelayFrame => obs'.updated]_vars

\* the clip of the current attack instance of c has reached the hit frame
AttackReady(c) ==
    /\ c.is_attacking /\ c.last_attack_id = c.current_attack_id
    /\ c.clips["attack"].current_frame >= AttackHitFrame
SpecialReady(c) ==
    /\ c.is_special_attacking /\ c.last_special_attack_id = c.current_special_attack_id
    /\ c.clips["special_attack"].current_frame >= SpecialAttackHitFrame

\* the attacker of a strike
StrikeAttacker(k) == IF k \in {"p1_attack", "p1_special"} THEN p1 ELSE p2

\* C17: get_attack_rect() is None whenever the combatant is not attacking or the
\* clip of its current attack instance has not reached hit frame 4, and
\* get_special_attack_rect() likewise: at the end of a frame and as the combat
\* resolution of a FightScene frame reads them
C17_NoHitboxBeforeHitFrame ==
    /\ \A c \in {p1, p2} :
          /\ ~AttackReady(c) => GetAttackRect(c) = NoRect
          /\ ~SpecialReady(c) => GetSpecialAttackRect(c) = NoRect
    /\ \A k \in Strikes :
          obs.armed[k] => IF k \in {"p1_attack", "p2_attack"} THEN AttackReady(StrikeAttacker(k))
                          ELSE SpecialReady(StrikeAttacker(k))

\* an attack of the player is one clip frame short of its hit frame, without hitbox
C17_Witness ==
    /\ p1.is_attacking /\ p1.last_attack_id = p1.current_attack_id
    /\ p1.clips["attack"].current_frame = AttackHitFrame - 1
    /\ GetAttackRect(p1) = NoRect

\* a hitbox is out at the end of a frame
HitboxOut ==
    \E c \in {p1, p2} : GetAttackRect(c) # NoRect \/ GetSpecialAttackRect(c) # NoRect

\* C18: Character.update(dt, intent) of a dead combatant changes nothing but the
\* clock of its current animation
C18_DeadUpdateOnlyAnimates ==
    obs.op = "update" /\ obs.before.is_dead /\ ~IsNinja(obs.before)
    => /\ p1 = [obs.before EXCEPT !.clips = p1.clips]
       /\ \A n \in Tracked \ {p1.anim} : p1.clips[n] = obs.before.clips[n]

\* the update of a dead samurai with an attack intent has advanced its dead clip
C18_Witness ==
    /\ obs.op = "update" /\ obs.before.is_dead /\ ~IsNinja(obs.before)
    /\ obs.in.attack /\ obs.dt > 0
    /\ p1.clips["dead"] # obs.before.clips["dead"]

\* C19: take_damage on a combatant that is already dead returns False and leaves
\* its health, is_dead, is_hit, hit_duration and current animation as they are,
\* whether or not it is blocking
C19_DeadTakesNoDamage ==
    obs.op = "take_damage" /\ obs.before.is_dead
    => /\ ~obs.ret
       /\ p1.health = obs.before.health /\ p1.is_dead
       /\ p1.is_hit = obs.before.is_hit /\ p1.hit_duration = obs.before.hit_duration
       /\ p1.anim = obs.before.anim /\ p1.clips = obs.before.clips

\* a dead samurai that blocks towards the attacker has been struck
C19_Witness ==
    /\ obs.op = "take_damage" /\ obs.before.is_dead /\ ~obs.ret
    /\ obs.before.is_blocking /\ FacesAttacker(obs.before, obs.attacker_x)

\* the attack (special attack) intent through update() would start an attack of c
IntentStartsAttack(c) ==
    ~c.is_dead /\ HandleInput(c, Key("attack")).current_attack_id # c.current_attack_id
IntentStartsSpecial(c) ==
    /\ ~c.is_dead
    /\ HandleInput(c, Key("special")).current_special_attack_id # c.current_special_attack_id

\* C20: attack() and special_attack() start an attack in exactly the states in
\* which the same intent through update() would start it (not attacking, not
\* special-attacking, not stunned, the cooldown of the attack at 0 or below), and
\* leave the combatant unchanged in every other state
C20_TriggersGatedAsIntents ==
    /\ obs.op = "attack"
       => IF IntentStartsAttack(obs.before)
          THEN p1.is_attacking /\ p1.current_attack_id = obs.before.current_attack_id + 1
          ELSE p1 = obs.before
    /\ obs.op = "special_attack"
       => IF IntentStartsSpecial(obs.before)
          THEN /\ p1.is_special_attacking
               /\ p1.current_special_attack_id = obs.before.current_special_attack_id + 1
          ELSE p1 = obs.before

\* the special_attack() call of this step started a special attack
SpecialStarted ==
    /\ obs.op = "special_attack"
    /\ p1.current_special_attack_id = obs.before.current_special_attack_id + 1
    /\ p1.is_special_attacking

\* C21: special_attack() returns true when the call started a special attack and
\* false when the cooldown or another gate (dead, already special-attacking)
\* rejected it
C21_SpecialAttackReturnsStarted ==
    obs.op = "special_attack"
    => /\ ~obs.none
       /\ obs.ret = SpecialStarted

\* start_special_attack(), the start behind the special intent, returns True
\* exactly when it starts a special attack
StartSpecialAttackReturnsStarted ==
    /\ ~StartSpecialAttackReturn(p1).none
    /\ StartSpecialAttackReturn(p1).value
       <=> StartSpecialAttack(p1).current_special_attack_id = p1.current_special_attack_id + 1

\* C22: no combatant, samurai or ninja, is ever attacking and special-attacking
\* at once
C22_AttackExclusive ==
    \A c \in {p1, p2} : ~(c.is_attacking /\ c.is_special_attacking)

\* the samurai of FightScene, which start their attacks through intents only,
\* are never attacking and special-attacking at once
SamuraiAttackExclusive ==
    \A c \in {p1, p2} : ~IsNinja(c) => ~(c.is_attacking /\ c.is_special_attacking)

\* C23: at the end of every tick no combatant is blocking while it is attacking,
\* special-attacking or stunned
C23_BlockingExclusive ==
    \A c \in {p1, p2} :
        c.is_attacking \/ c.is_special_attacking \/ c.is_stunned => ~c.is_blocking

\* a samurai is never blocking while it is attacking or stunned
SamuraiBlockingExclusive ==
    \A c \in {p1, p2} : ~IsNinja(c) /\ (c.is_attacking \/ c.is_stunned) => ~c.is_blocking

\* an attack of the samurai ran out in the update of this step
AttackExpired == obs.op = "update" /\ obs.is_attacking /\ ~p1.is_attacking
SpecialExpired == obs.op = "update" /\ obs.is_special_attacking /\ ~p1.is_special_attacking

\* an attack that has run its time has had its hit latch enabled
LatchEnabled ==
    /\ AttackExpired => p1.can_hit
    /\ SpecialExpired => p1.can_special_hit

\* C24: combat and round outcomes do not depend on the clips present: when the
\* sprites failed to load and only the fallback idle clip exists, an attack still
\* gets its hit latch enabled before it runs out, and a samurai whose health
\* reached 0 still comes to is_death_animation_finished()
C24_OutcomesWithoutClips ==
    /\ [](p1.animations = FallbackClips => LatchEnabled)
    /\ (p1.animations = FallbackClips /\ p1.is_dead) ~> IsDeathAnimationFinished(p1)

\* with the clips loaded, every attack that runs out with no hit taken has had its
\* latch enabled, and the dead samurai comes to the end of its death animation
OutcomesWithClips ==
    /\ [](p1.animations = SamuraiClips /\ ~obs.hurt => LatchEnabled)
    /\ (p1.animations = SamuraiClips /\ p1.is_dead) ~> IsDeathAnimationFinished(p1)

\* the parts of C24 on their own
FallbackLatchEnabled == p1.animations = FallbackClips => LatchEnabled
FallbackDeathFinishes ==
    (p1.animations = FallbackClips /\ p1.is_dead) ~> IsDeathAnimationFinished(p1)

\* with the clips loaded, attacks of both kinds run out and a samurai dies
WithClipsReached ==
    /\ p1.animations = SamuraiClips /\ p1.is_dead /\ IsDeathAnimationFinished(p1)
    /\ p1.can_hit /\ p1.attack_cooldown > 0

\* C25: a hit reaction does not block the attack: a samurai that took a
\* non-lethal hit while its attack was active still has its hit latch enabled
\* by the time the attack runs out (frames of 34 ms, at which an attack reaches
\* its hit frame before its duration ends)
C25_HitKeepsAttack ==
    p1.animations = SamuraiClips /\ obs.hurt /\ ~p1.is_dead => LatchEnabled

\* a samurai whose latch was enabled before the hit landed keeps it
HitAfterLatch ==
    /\ p1.animations = SamuraiClips /\ obs.hurt /\ ~p1.is_dead
    /\ AttackExpired /\ p1.can_hit

\* the labels of the active attacks of c
AttackLabels(c) ==
    {n \in {"attack", "special_attack"} :
        IF n = "attack" THEN c.is_attacking ELSE c.is_special_attacking}

\* the labels the priority order allows for c: those of its active attacks, or
\* else the label of the first of hit-reacting, stunned, blocking, moving,
\* airborne that is true, or else idle
PriorityLabels(c) ==
    IF AttackLabels(c) # {} THEN AttackLabels(c)
    ELSE IF c.is_hit THEN {"hit"}
    ELSE IF c.is_stunned THEN {"stun"}
    ELSE IF c.is_blocking THEN {"block"}
    ELSE IF Abs(c.velocity_x) > 10 * MV THEN {"walk"}
    ELSE IF ~c.on_ground THEN {"jump"}
    ELSE {"idle"}

\* C26: after every Character.update of a living samurai (all clips loaded) the
\* current animation label is the highest-priority label among its true states,
\* in the order attacking/special > hit-reacting > stunned > blocking > moving
\* (|vx| > 10) > airborne > idle
C26_AnimationPriority ==
    obs.op = "update" /\ p1.animations = SamuraiClips /\ ~p1.is_dead
    => p1.anim \in PriorityLabels(p1)

\* the same after an update of a samurai that is in no attack
PriorityBelowAttack ==
    obs.op = "update" /\ p1.animations = SamuraiClips /\ ~p1.is_dead /\ AttackLabels(p1) = {}
    => p1.anim \in PriorityLabels(p1)

\* C27: a special attack starts only with special_attack_cooldown at 0 or below,
\* and from one start of a combatant to its next at least its
\* special_attack_cooldown_time of tick time accumulates (10 s; 8 s for the ninja)
C27_SpecialCooldown ==
    obs.started
    => /\ obs.cooldown <= 0
       /\ obs.gap >= 0 => obs.gap >= p1.special_attack_cooldown_time

\* a samurai starts its second special attack
C27_Witness ==
    obs.started /\ obs.gap >= 0 /\ ~IsNinja(p1) /\ obs.gap < MaxSince

\* the ninja starts its second teleport strike
NinjaSecondSpecial == obs.started /\ obs.gap >= 0 /\ IsNinja(p1)

\* stamina s after dt of regeneration
Regenerated(c, s, dt) == Min(c.max_stamina, s + StaminaRegenRate * dt)

\* an update of a living combatant
LivingUpdate == obs.op = "update" /\ ~obs.before.is_dead

\* C28 as stated: stamina never increases during an update at whose end the
\* combatant is blocking or stunned; in every other update of a living combatant
\* it increases by 25*dt, capped at max_stamina
C28_StaminaRegen ==
    LivingUpdate
    => IF p1.is_blocking \/ p1.is_stunned
       THEN p1.stamina <= obs.before.stamina
       ELSE p1.stamina = Regenerated(p1, obs.before.stamina, obs.dt)

\* C28: Character.update of a living samurai never increases the stamina when the
\* samurai is blocking or stunned at its end, and else raises by 25*dt, capped at
\* max_stamina, the stamina left after the block and jump costs of the update;
\* YellowNinja.update of a living ninja raises the stamina by 25*dt, capped,
\* exactly when the ninja is neither blocking nor stunned as _update_combat runs
\* at the start of the update
C28_StaminaRegenAfterCosts ==
    LivingUpdate
    => IF IsNinja(p1)
       THEN p1.stamina =
               IF CombatStun(obs.before, obs.dt).is_blocking
                  \/ CombatStun(obs.before, obs.dt).is_stunned
               THEN obs.before.stamina
               ELSE Regenerated(p1, obs.before.stamina, obs.dt)
       ELSE IF p1.is_blocking \/ p1.is_stunned
       THEN p1.stamina <= obs.before.stamina
       ELSE p1.stamina = Regenerated(p1, HandleInput(obs.before, obs.in).stamina, obs.dt)

\* a samurai with stamina to regain ends an update of 34 ms neither blocking
\* nor stunned and has regained 0.85
C28_Witness ==
    /\ LivingUpdate /\ ~IsNinja(p1) /\ obs.dt = 34
    /\ ~p1.is_blocking /\ ~p1.is_stunned
    /\ obs.before.stamina < p1.max_stamina - StaminaRegenRate * obs.dt
    /\ p1.stamina = obs.before.stamina + StaminaRegenRate * obs.dt

\* a samurai with stamina to regain ends an update of 500 ms blocking
RegenWithheld ==
    /\ LivingUpdate /\ ~IsNinja(p1) /\ obs.dt = 500
    /\ p1.is_blocking /\ obs.before.is_blocking
    /\ p1.stamina < p1.max_stamina /\ p1.stamina = obs.before.stamina

\* a jump and regeneration in one update
JumpAndRegen ==
    /\ LivingUpdate /\ ~IsNinja(p1) /\ obs.dt = 34 /\ ~p1.is_stunned
    /\ p1.stamina = obs.before.stamina - JumpStaminaCost * SU + StaminaRegenRate * obs.dt

\* the ninja regains stamina in an update at whose end it is blocking
NinjaRegenBlocking ==
    /\ LivingUpdate /\ IsNinja(p1) /\ p1.is_blocking /\ p1.stamina > obs.before.stamina

\* an update of a living samurai with the block intent
BlockHeld == LivingUpdate /\ ~IsNinja(p1) /\ obs.in.block

\* stamina s less the cost of a block start
BlockPaid(s) == Max(0, s - StaminaPerBlock * SU)

\* C29: an update with the block intent costs stamina only when is_blocking goes
\* from false to true in it, and then 50, clamped at 0; an update that begins and
\* ends in the block leaves the stamina unchanged
C29_BlockCostOnce ==
    BlockHeld
    => IF obs.before.is_blocking
       THEN /\ p1.stamina >= obs.before.stamina
            /\ p1.is_blocking => p1.stamina = obs.before.stamina
       ELSE /\ p1.is_blocking => p1.stamina = obs.before.stamina - StaminaPerBlock * SU
            /\ p1.stamina < obs.before.stamina /\ ~obs.in.up
               => p1.stamina \in {BlockPaid(obs.before.stamina),
                                  Regenerated(p1, BlockPaid(obs.before.stamina), obs.dt)}

\* a later update of a block that began at full stamina: the stamina is still 50
C29_Witness ==
    /\ BlockHeld /\ obs.dt = 500 /\ obs.before.is_blocking /\ p1.is_blocking
    /\ p1.stamina = p1.max_stamina - StaminaPerBlock * SU

\* the update in which the block begins
BlockStarts ==
    /\ BlockHeld /\ ~obs.before.is_blocking /\ p1.is_blocking
    /\ p1.stamina = obs.before.stamina - StaminaPerBlock * SU

\* a block start that takes the last stamina and stuns
BlockStartStuns ==
    /\ BlockHeld /\ ~obs.before.is_blocking /\ ~obs.before.is_stunned
    /\ obs.before.stamina > 0 /\ obs.before.stamina < StaminaPerBlock * SU
    /\ p1.stamina = 0 /\ p1.is_stunned /\ ~p1.is_blocking

\* an update of a living samurai
SamuraiUpdate == LivingUpdate /\ ~IsNinja(p1)

\* the update took a jump: _handle_input left the ground
JumpTaken == obs.before.on_ground /\ ~HandleInput(obs.before, obs.in).on_ground

\* the intent of the update without the jump
NoJumpIntent == [obs.in EXCEPT !.up = FALSE]

\* C30: a jump is taken only with the jump intent, on the ground, not blocking,
\* not stunned and with stamina >= 20; it sets the vertical velocity to
\* -jump_power, costs 20 stamina and stuns when the stamina reaches 0; a jump
\* intent in the air makes no difference to vertical velocity and stamina
C30_JumpGate ==
    SamuraiUpdate
    => /\ JumpTaken
          => /\ obs.in.up /\ ~obs.before.is_stunned /\ ~p1.is_blocking
             /\ obs.before.stamina >= JumpStaminaCost * SU
             /\ HandleInput(obs.before, obs.in).velocity_y = -(JumpPower * MV)
             /\ obs.dt > 0 => /\ ~p1.on_ground
                              /\ p1.velocity_y = -(JumpPower * MV) + Gravity * obs.dt
             /\ IF obs.before.stamina = JumpStaminaCost * SU
                THEN p1.stamina = 0 /\ p1.is_stunned
                ELSE /\ ~p1.is_stunned
                     /\ p1.stamina = Regenerated(p1, obs.before.stamina - JumpStaminaCost * SU,
                                                 obs.dt)
       /\ obs.in.up /\ ~obs.before.on_ground
          => /\ p1.velocity_y = CharUpdate(obs.before, obs.dt, NoJumpIntent).velocity_y
             /\ p1.stamina = CharUpdate(obs.before, obs.dt, NoJumpIntent).stamina

\* the jump that takes the last 20 stamina: the samurai is stunned in the air
C30_Witness ==
    /\ SamuraiUpdate /\ JumpTaken /\ obs.dt = 34
    /\ obs.before.stamina = JumpStaminaCost * SU
    /\ p1.stamina = 0 /\ p1.is_stunned /\ ~p1.on_ground

\* a jump intent in the air
AirborneJumpIntent ==
    /\ SamuraiUpdate /\ obs.in.up /\ ~obs.before.on_ground /\ ~p1.on_ground
    /\ obs.before.stamina >= JumpStaminaCost * SU /\ ~obs.before.is_stunned

\* a jump intent on the ground with less than 20 stamina
JumpRefused ==
    /\ SamuraiUpdate /\ obs.in.up /\ ~obs.in.block /\ obs.before.on_ground
    /\ ~obs.before.is_stunned /\ obs.before.stamina > 0
    /\ obs.before.stamina < JumpStaminaCost * SU /\ p1.on_ground /\ ~JumpTaken

\* a jump in the update that releases the block
JumpFromBlock == SamuraiUpdate /\ JumpTaken /\ obs.before.is_blocking

\* a jump in an update of no duration: paid for and landed at once
JumpLandsAtOnce == SamuraiUpdate /\ JumpTaken /\ p1.on_ground /\ p1.velocity_y = 0

\* the combatant's x lies in the arena: [-100, 900 - width]
InArena(c) == c.x >= ArenaLeft * U /\ c.x <= (ArenaRight - c.width) * U

\* the frame starts the next round, which puts the combatants on their marks
RoundRestarted == sc.round_over /\ ~sc'.round_over

\* C31: after every update of a combatant, a teleport of the ninja included, its
\* x lies in [-100, 900 - width] (frames that go on to reset the round aside)
C31_InArena ==
    [][obs'.updated /\ ~RoundRestarted => InArena(p1') /\ InArena(p2')]_vars

\* the samurai of both scenes stay in the arena
SamuraiInArena ==
    [][obs'.updated /\ ~RoundRestarted
       => InArena(p1') /\ (mode' = "fight" => InArena(p2'))]_vars

\* a samurai is held at the right bound of the arena
SamuraiAtBound == obs.updated /\ mode = "fight" /\ p2.x = (ArenaRight - p2.width) * U

\* the ninja stands beyond 900 - width after its teleport
NinjaBeyondArena == mode = "level2" /\ p2.is_special_attacking /\ ~InArena(p2)

\* the frame in which the ninja's teleport special triggers
Teleported == mode' = "level2" /\ ~p2.is_special_attacking /\ p2'.is_special_attacking

\* b stands behind a: on the side opposite to a's facing
Behind(b, a) == IF a.facing_right THEN b.x < a.x ELSE b.x > a.x

\* C32: when the ninja's teleport special triggers, at the end of that update the
\* ninja stands strictly behind the player, faces the player, is attacking with a
\* fresh attack id and the hit latch off, and its special cooldown is the
\* cooldown time
C32_TeleportBehind ==
    [][Teleported
       => /\ Behind(p2', p1')
          /\ IsFacingTarget(p2', p1')
          /\ p2'.is_attacking /\ p2'.attack_duration = AttackDuration
          /\ p2'.current_attack_id = p2.current_attack_id + 1
          /\ ~p2'.can_hit
          /\ p2'.special_attack_cooldown = p2'.special_attack_cooldown_time]_vars

\* the ninja has just teleported
JustTeleported ==
    /\ mode = "level2" /\ p2.is_special_attacking
    /\ p2.special_attack_duration = NinjaTeleportWindow

\* the teleport behind a player who stands at the left bound of the arena and
\* faces right: the ninja is held at the bound, behind the player
C32_Witness ==
    /\ JustTeleported /\ p1.facing_right /\ p2.x = ArenaLeft * U /\ p1.x > p2.x
    /\ p1.x - p2.x < (p2.width + NinjaTeleportOffset) * U

\* the teleport behind a player in the middle of the arena
TeleportInside ==
    /\ JustTeleported /\ p1.facing_right
    /\ p1.x - p2.x = (p2.width + NinjaTeleportOffset) * U

\* the teleport behind a player who faces left, to the right bound's side
TeleportRight == JustTeleported /\ ~p1.facing_right /\ p2.x > p1.x /\ ~p2.facing_right

\* the places of the player in the arena, half a pixel apart, with the facings it
\* can have there (a player that faces right has moved right, off the left bound)
PlayerPlaces ==
    {[Level2Start.p1 EXCEPT !.x = ArenaLeft * U + k * (U \div 2), !.facing_right = f] :
        k \in 0..(2 * (ArenaRight - SamuraiWidth - ArenaLeft)), f \in BOOLEAN}
    \ {[Level2Start.p1 EXCEPT !.x = ArenaLeft * U]}

\* the ninja at the end of an update that teleports it behind player
TeleportedTo(player) ==
    NinjaClamp(NinjaTeleport(Level2Start.p2, player), ArenaLeft, ArenaRight)

\* wherever the player stands, the teleport leaves the ninja behind the player
\* and facing the player
TeleportEverywhere ==
    obs.op = "init"
    => \A player \in PlayerPlaces :
          Behind(TeleportedTo(player), player) /\ IsFacingTarget(TeleportedTo(player), player)

\* the action of the AI policy of p2
AIAction == IF IsNinja(p2) THEN p2.ai_current_action ELSE ai.current_action

\* C33: when the generic AI finds its combatant stunned at a decision, its action
\* is the forced no-op, and while that action lasts the intent it returns has
\* every field false
C33_StunnedNoOp ==
    obs.op = "ai" /\ ~IsNinja(p2)
    => /\ obs.decided /\ obs.stunned => ai.current_action = "stunned"
       /\ ai.current_action = "stunned" => ai.input = NoInput

\* the decision of a stunned combatant's AI is the no-op
StunnedDecides ==
    obs.op = "ai" /\ ~IsNinja(p2) /\ obs.decided /\ obs.stunned
    => ai.current_action = "stunned"

\* the no-op lasts until a decision finds the combatant no longer stunned
StunnedUntilDecision ==
    obs.op = "ai" /\ ~IsNinja(p2) /\ obs.action = "stunned" /\ ~obs.decided
    => ai.current_action = "stunned"

\* the AI's action is the no-op after a decision
StunnedReached ==
    obs.op = "ai" /\ ~IsNinja(p2) /\ obs.decided /\ obs.stunned /\ ai.current_action = "stunned"
    /\ ai.input = NoInput

\* the decision interval of the AI policy of p2
DecisionInterval == IF IsNinja(p2) THEN NinjaDecisionInterval ELSE AIDecisionInterval

\* C34: the AI decides only in an update by which the dt accumulated since its
\* last decision has reached its decision interval (200 ms generic, 150 ms
\* ninja); in an update without a decision no action is chosen: the action stays,
\* or a block or jump attack that has run out lapses to idle
C34_DecisionCadence ==
    obs.op = "ai"
    => /\ obs.decided => obs.gap >= DecisionInterval
       /\ ~obs.decided
          => \/ AIAction = obs.action
             \/ ~IsNinja(p2) /\ AIAction = "idle" /\ obs.action \in {"block", "jump_attack"}

\* the AI decides in every update by which the interval has been reached
DecidesWhenDue == obs.op = "ai" /\ obs.gap >= DecisionInterval => obs.decided

\* the generic AI decides on the update that brings the accumulated dt to exactly
\* 200 ms, and chooses another action
C34_Witness ==
    /\ obs.op = "ai" /\ ~IsNinja(p2) /\ obs.decided /\ obs.gap = AIDecisionInterval
    /\ ai.current_action # obs.action

\* the ninja decides on the update that brings the accumulated dt to exactly 150 ms
NinjaDecidesAtInterval ==
    /\ obs.op = "ai" /\ IsNinja(p2) /\ obs.decided /\ obs.gap = NinjaDecisionInterval
    /\ p2.ai_current_action # obs.action

\* an update short of the interval: no decision, the action stays
NoDecisionYet ==
    /\ obs.op = "ai" /\ ~obs.decided /\ obs.gap >= 100 /\ AIAction = obs.action
    /\ AIAction # "idle"

\* a block that runs out between two decisions
BlockLapses ==
    obs.op = "ai" /\ ~obs.decided /\ obs.action = "block" /\ ai.current_action = "idle"

\* C35: after every update of the input handler the block intent is the block key
\* held with no parry window open; a parry window is open exactly while less than
\* 0.3 s of tick time has passed since a release of the key after a hold of at
\* most 0.3 s, and then parry_window_time is what is left of the 0.3 s; an open
\* window has 0 < parry_window_time <= 0.3 s
C35_ParryWindow ==
    obs.op = "update"
    => /\ ih.player1_input.block = (ih.keys.block /\ ~ih.is_parrying)
       /\ ih.is_parrying = (obs.since < ParryWindowDuration)
       /\ ih.is_parrying
          => /\ ih.parry_window_time = ParryWindowDuration - obs.since
             /\ 0 < ih.parry_window_time /\ ih.parry_window_time <= ParryWindowDuration

\* a release after a hold of exactly 0.3 s has opened a window
C35_Witness ==
    /\ obs.op = "update" /\ obs.released /\ obs.held = ParryWindowDuration
    /\ ih.is_parrying /\ ~obs.open
    /\ ih.parry_window_time = ParryWindowDuration - obs.dt /\ obs.dt > 0

\* a release after a longer hold opens no window
LongHoldReleased ==
    /\ obs.op = "update" /\ obs.was_down /\ ~ih.keys.block
    /\ obs.held > ParryWindowDuration /\ ~obs.released /\ ~ih.is_parrying

\* the key held again while the window is open: no block intent
BlockSuppressed ==
    obs.op = "update" /\ ih.keys.block /\ ih.is_parrying /\ ~ih.player1_input.block

\* the window closes on the update that completes the 0.3 s
WindowCloses ==
    /\ obs.op = "update" /\ obs.open /\ ~ih.is_parrying /\ ~obs.released
    /\ obs.since = ParryWindowDuration /\ ih.parry_window_time = 0
    /\ ih.keys.block /\ ih.player1_input.block

\* a release seen by an update of 0.3 s or more: the window opens and closes in it
WindowNeverSeen ==
    obs.op = "update" /\ obs.released /\ ~ih.is_parrying

\* a window open at its full length, after an update of no tick time
WindowFull ==
    obs.op = "update" /\ ih.is_parrying /\ ih.parry_window_time = ParryWindowDuration

\* C36: a combatant that was dead before a frame takes no health from its
\* opponent in that frame
C36_DeadDealsNoDamage ==
    [][/\ p1.is_dead => p2'.health >= p2.health
       /\ p2.is_dead => p1'.health >= p1.health]_vars

\* the AI's samurai dead with its attack and hit latch still set
DeadArmed == p2.is_dead /\ p2.is_attacking /\ p2.can_hit

\* the attack of c has run its full duration in the update that gives d
AttackRunsOut(c, d) ==
    /\ c.is_attacking /\ ~d.is_attacking /\ d.attack_duration <= 0
    /\ d.current_attack_id = c.current_attack_id
    /\ ~c.is_dead /\ ~d.is_dead /\ ~c.is_hit /\ ~d.is_hit

\* C37: when a normal attack of the AI's combatant (samurai or ninja), whose
\* strikes nothing here resolves and whom nothing hits, runs out in an update,
\* its hit latch has been enabled by an earlier update and is still set
C37_AttackLatched ==
    [][obs'.op = "ai" /\ AttackRunsOut(p2, p2') => p2.can_hit]_vars

\* the ninja's hit latch is never set
NinjaNeverLatched == IsNinja(p2) => ~p2.can_hit

\* an attack of the ninja that has run out: it is over, its cooldown is running
\* and no damage was ever dealt by the ninja
NinjaAttackOver ==
    /\ IsNinja(p2) /\ ~p2.is_attacking /\ p2.current_attack_id > 0
    /\ p2.attack_duration <= 0 /\ ~p2.is_dead

\* in the game a samurai's attack does get its latch
SamuraiLatched == ~IsNinja(p2) /\ p2.is_attacking /\ p2.can_hit /\ mode = "fight"

\* both combatants dead with their death animations finished
BothDown(a, b) ==
    /\ a.is_dead /\ IsDeathAnimationFinished(a)
    /\ b.is_dead /\ IsDeathAnimationFinished(b)

BothDieAtOnce ==
    /\ p1.is_dead /\ p2.is_dead /\ obs.struck["p1_attack"] = "hit"
    /\ obs.struck["p2_attack"] = "hit"

\* C39: in every state a frame leaves, a round reset included, each combatant is
\* dead exactly when its health is 0
C39_DeadIffNoHealth ==
    /\ p1.is_dead <=> p1.health = 0
    /\ p2.is_dead <=> p2.health = 0

\* a new round of FightScene has started after a knockout: the combatant that was
\* dead is alive with full health
C39_Witness ==
    /\ mode = "fight" /\ sc.current_round > 1 /\ sc.player_wins > 0 /\ ~sc.round_over
    /\ ~p2.is_dead /\ p2.health = p2.max_health /\ p2.anim = "dead"

\* dead at health 0 by Level2Scene._deal_damage
NinjaDead == mode = "level2" /\ p2.is_dead /\ p2.health = 0

\* a new round of Level2Scene has started after the ninja's death
Level2RoundAfterKnockout ==
    /\ mode = "level2" /\ sc.current_round = 2 /\ sc.player_wins = 1 /\ ~p2.is_dead
    /\ p2.health = p2.max_health /\ sc.round_time > RoundTime - 2 * RoundEndDuration

\* the player dead at health 0 in FightScene
PlayerDead == mode = "fight" /\ p1.is_dead /\ p1.health = 0

\* hit and alive
HitAlive == p1.health > 0 /\ p1.health < p1.max_health /\ ~p1.is_dead

====
